---- MODULE Spec2Model ----
(***************************************************************************)
(* A model of the session / token / CAPTCHA subsystem of TurboX Desktop:   *)
(* SessionManager (src/session_manager.py) and the token extraction of     *)
(* SocketBridge (src/socket_bridge.py).                                    *)
(*                                                                         *)
(* Time is an integer.  The session store reads datetime.now() and counts  *)
(* in minutes (clock); the CAPTCHA cache reads time.time() and counts in   *)
(* seconds (now).  A digest (sha256, md5) is modelled as an injective      *)
(* tagging of its input.  A JSON text is modelled as the tagged value it   *)
(* encodes: json.dumps turns kind "dict" into kind "text", json.loads      *)
(* turns it back.                                                          *)
(***************************************************************************)
EXTENDS Integers, Sequences, FiniteSets, TLC

VARIABLES
    db,               \* sessions table of sessions.db: session id -> row
    active_sessions,  \* SessionManager.active_sessions: session id -> session
    clock,            \* datetime.now(), in minutes
    session_lock,     \* SessionManager.session_lock: the thread holding it
    threads,          \* the call each thread is in, its position and locals
    sessions,         \* SocketBridge.sessions: domain -> session entry
    request,          \* the captured request being processed
    captcha_cache,    \* SessionManager.captcha_cache: key -> solution, timestamp
    captcha_dir,      \* the files of ~/.turboX/captchas: path -> content
    captcha_solutions,\* captcha_solutions table of sessions.db: id -> row
    now,              \* time.time(), in seconds
    calls,            \* the number of calls of solve_captcha made
    current_session,  \* AutomatedAPITester.current_session
    data_dir,         \* the files of SocketBridge.data_dir: name -> content
    active_tools,     \* SocketBridge.active_tools: tool -> bool
    desktop_to_browser, \* SocketBridge.desktop_to_browser: the queued messages
    clients,          \* SocketBridge.clients: client id -> entry
    browser_connected,\* SocketBridge.browser_connected
    handlers,         \* _handle_ws_client of each client: position and locals
    peer,             \* the far end of each client's connection
    sent,             \* what each client socket has accepted, in order
    taken,            \* the number of messages taken off desktop_to_browser
    browser_to_desktop, \* SocketBridge.browser_to_desktop: the queued notices
    running_tools,    \* AutomationController.running_tools: tool -> info
    processes,        \* the processes started, by pid: running or exited
    runners,          \* the threads of _run_tool_script, each with its locals
    controller_browser, \* AutomationController.browser_connected and
                      \* last_browser_activity
    workers,          \* the request threads of APITester, each with its locals
    ui_queue,         \* the calls queued for the UI thread of APITester
    history,          \* APITester.history
    response_editor,  \* what the response pane of APITester shows
    services,         \* TurboXCoreManager.services: name -> entry
    service_processes,\* the processes of the services, by pid
    monitors,         \* the threads of _monitor_service, each with its locals
    lastOp            \* the last call made and what it returned

sessVars == <<db, active_sessions, clock>>
thrVars == <<session_lock, threads>>
brVars == <<sessions, request>>
capRest == <<captcha_dir, captcha_solutions, now, calls>>
capVars == <<captcha_cache, capRest>>
apiVars == <<current_session>>
bridgeVars == <<data_dir, active_tools, desktop_to_browser>>
wsVars == <<clients, browser_connected, handlers, peer, sent, taken>>
httpVars == <<browser_to_desktop>>
autoVars == <<running_tools, processes, runners, controller_browser>>
testerVars == <<workers, ui_queue, history, response_editor>>
coreVars == <<services, service_processes, monitors>>
appVars == <<apiVars, httpVars, autoVars, testerVars, coreVars>>
toolVars == <<appVars, bridgeVars, wsVars>>
vars == <<db, active_sessions, clock, session_lock, threads, sessions, request,
          captcha_cache, captcha_dir, captcha_solutions, now, calls,
          current_session, data_dir, active_tools, desktop_to_browser,
          clients, browser_connected, handlers, peer, sent, taken,
          browser_to_desktop, running_tools, processes, runners,
          controller_browser,
          workers, ui_queue,
          history, response_editor, services, service_processes, monitors,
          lastOp>>

\* What the calls of the session store leave alone
restOfSess == <<thrVars, brVars, capVars, toolVars>>
restOfThreads == <<brVars, capVars, toolVars>>

----------------------------------------------------------------------------
(* Bounds of the model *)

MaxSessions == 2
MaxParts == 2
MaxFields == 2
MaxCalls == 2
MaxQueue == 2
MaxTaken == 2
MaxProcesses == 2
MaxWorkers == 2

(* Program constants *)

\* timedelta(days=7) and timedelta(hours=1), in minutes
SessionTTL == 10080
SweepHorizon == 60

\* the age in seconds at which a cached CAPTCHA solution is no longer served
CacheTTL == 300

Domains == {"a.com", "b.com"}

\* The instants the clock takes: the start, and just before and just after
\* the expiry of a session created at the start.
Times == {0, SessionTTL - 1, SessionTTL + 1}

\* The instants of the runs that only update sessions
UpdateTimes == {0, 1}
UpdateDomains == {"a.com"}

\* The instants of the CAPTCHA runs: the start, and just before, at and just
\* after the expiry of a solution cached at the start
Seconds == {0, CacheTTL - 1, CacheTTL, CacheTTL + 1}

None == [kind |-> "none"]

----------------------------------------------------------------------------
(* Values of the JSON columns *)

NoKeys == <<>>

DictVal(m) == [kind |-> "dict", m |-> m]
JsonText(m) == [kind |-> "text", m |-> m]

\* json.dumps(value) if isinstance(value, (dict, list)) else value
Dumps(v) == IF v.kind = "dict" THEN JsonText(v.m) ELSE v

\* json.loads(text) of a column; a value that is no JSON text parses to {}
Loads(v) == IF v.kind = "text" THEN DictVal(v.m) ELSE DictVal(NoKeys)

\* hashlib.sha256(f"{domain}_{now}").hexdigest()[:16]
SessionId(domain, t) == <<domain, t>>

----------------------------------------------------------------------------
(* The sessions table and the cache *)

\* dict(row) with the JSON fields parsed, as get_session and
\* get_session_for_domain build it
ParseRow(sid) ==
    [id |-> sid,
     domain |-> db[sid].domain,
     cookies |-> Loads(db[sid].cookies),
     tokens |-> Loads(db[sid].tokens),
     headers |-> Loads(db[sid].headers),
     created_at |-> db[sid].created_at,
     last_used |-> db[sid].last_used,
     expires_at |-> db[sid].expires_at,
     is_active |-> db[sid].is_active]

\* (mutant) the session expires an hour after its creation
NewSessionShortLived(sid, domain) ==
    [id |-> sid,
     domain |-> domain,
     cookies |-> JsonText(NoKeys),
     tokens |-> JsonText(NoKeys),
     headers |-> JsonText(NoKeys),
     created_at |-> clock,
     last_used |-> clock,
     expires_at |-> clock + SweepHorizon,
     is_active |-> 1]

\* session_data of create_session: the JSON columns hold json.dumps({})
NewSession(sid, domain) ==
    [id |-> sid,
     domain |-> domain,
     cookies |-> JsonText(NoKeys),
     tokens |-> JsonText(NoKeys),
     headers |-> JsonText(NoKeys),
     created_at |-> clock,
     last_used |-> clock,
     expires_at |-> clock + SessionTTL,
     is_active |-> 1]

RowOf(s) ==
    [domain |-> s.domain,
     cookies |-> s.cookies,
     tokens |-> s.tokens,
     headers |-> s.headers,
     created_at |-> s.created_at,
     last_used |-> s.last_used,
     expires_at |-> s.expires_at,
     is_active |-> s.is_active]

Put(f, k, v) == [x \in DOMAIN f \cup {k} |-> IF x = k THEN v ELSE f[x]]

Field(updates, old, k) == IF k \in DOMAIN updates THEN updates[k] ELSE old[k]

\* (mutant) the cached session is stamped but keeps its old values
CacheUpdateStale(s, updates) ==
    [id |-> s.id,
     domain |-> s.domain,
     cookies |-> s.cookies,
     tokens |-> s.tokens,
     headers |-> s.headers,
     created_at |-> s.created_at,
     last_used |-> clock,
     expires_at |-> s.expires_at,
     is_active |-> s.is_active]

\* self.active_sessions[session_id].update(updates); then last_used = now
CacheUpdate(s, updates) ==
    [id |-> s.id,
     domain |-> s.domain,
     cookies |-> Field(updates, s, "cookies"),
     tokens |-> Field(updates, s, "tokens"),
     headers |-> s.headers,
     created_at |-> s.created_at,
     last_used |-> clock,
     expires_at |-> s.expires_at,
     is_active |-> Field(updates, s, "is_active")]

JsonFields == {"cookies", "tokens", "headers"}

\* The value update_session binds to column k: the JSON columns are dumped
StoredValue(k, v) == IF k \in JsonFields THEN Dumps(v) ELSE v

StoredField(updates, old, k) ==
    IF k \in DOMAIN updates THEN StoredValue(k, updates[k]) ELSE old[k]

\* UPDATE sessions SET k = ?, ..., last_used = ? WHERE id = ?  (of two
\* assignments to one column SQLite keeps the rightmost)
RowUpdate(r, updates) ==
    [domain |-> r.domain,
     cookies |-> StoredField(updates, r, "cookies"),
     tokens |-> StoredField(updates, r, "tokens"),
     headers |-> r.headers,
     created_at |-> r.created_at,
     last_used |-> clock,
     expires_at |-> r.expires_at,
     is_active |-> StoredField(updates, r, "is_active")]

\* The rows SELECT ... WHERE domain = ? AND is_active = 1 ORDER BY last_used
\* DESC LIMIT 1 may return: an active row of the domain that no other is
\* used later than
LatestActive(domain) ==
    LET rows == {sid \in DOMAIN db :
                    db[sid].domain = domain /\ db[sid].is_active = 1}
    IN {sid \in rows : \A o \in rows : db[o].last_used <= db[sid].last_used}

\* SELECT id FROM sessions WHERE expires_at < now + 1h AND is_active = 1
Expiring ==
    {sid \in DOMAIN db :
        db[sid].expires_at < clock + SweepHorizon /\ db[sid].is_active = 1}

----------------------------------------------------------------------------
(* Strings, as sequences of characters *)

UpperChars == <<"A", "B", "C", "D", "E", "F", "G", "H", "I", "J", "K", "L", "M", "N", "O", "P", "Q", "R", "S", "T", "U", "V", "W", "X", "Y", "Z">>
LowerChars == <<"a", "b", "c", "d", "e", "f", "g", "h", "i", "j", "k", "l", "m", "n", "o", "p", "q", "r", "s", "t", "u", "v", "w", "x", "y", "z">>

LowerChar(c) ==
    IF \E i \in 1..26 : UpperChars[i] = c
    THEN LowerChars[CHOOSE i \in 1..26 : UpperChars[i] = c]
    ELSE c

\* str.lower()
Lower(s) == [i \in 1..Len(s) |-> LowerChar(s[i])]

\* sub in s
Contains(s, sub) ==
    \E i \in 1..(Len(s) - Len(sub) + 1) : SubSeq(s, i, i + Len(sub) - 1) = sub

HasChar(s, c) == \E i \in 1..Len(s) : s[i] = c

FirstIndex(s, c) == CHOOSE i \in 1..Len(s) : s[i] = c /\ \A j \in 1..(i - 1) : s[j] # c

\* s.split(c)
RECURSIVE Split(_, _)
Split(s, c) ==
    IF ~HasChar(s, c) THEN <<s>>
    ELSE LET i == FirstIndex(s, c)
         IN <<SubSeq(s, 1, i - 1)>> \o Split(SubSeq(s, i + 1, Len(s)), c)

\* s.strip(), of blanks
RECURSIVE Strip(_)
Strip(s) ==
    IF s = <<>> THEN s
    ELSE IF Head(s) = " " THEN Strip(Tail(s))
    ELSE IF s[Len(s)] = " " THEN Strip(SubSeq(s, 1, Len(s) - 1))
    ELSE s

\* any(token in key.lower() for token in keywords)
Matches(key, keywords) == \E kw \in keywords : Contains(Lower(key), kw)

K_session == <<"s", "e", "s", "s", "i", "o", "n">>
K_token == <<"t", "o", "k", "e", "n">>
K_auth == <<"a", "u", "t", "h">>
K_jwt == <<"j", "w", "t">>
K_bearer == <<"b", "e", "a", "r", "e", "r">>
K_access == <<"a", "c", "c", "e", "s", "s">>
K_refresh == <<"r", "e", "f", "r", "e", "s", "h">>

----------------------------------------------------------------------------
(* Token and cookie extraction *)

\* session_manager.py line 328 and socket_bridge.py line 387
CookieKeywords == {K_session, K_token, K_auth, K_jwt}
BridgeCookieKeywords == {K_session, K_token, K_auth, K_jwt, K_bearer}

\* session_manager.py line 339 and socket_bridge.py line 403
TokenKeywords == {K_token, K_access, K_refresh, K_auth, K_bearer}
BridgeTokenKeywords == {K_token, K_access, K_refresh, K_auth}

\* len(value) > 10
TokenMinLen == 10

\* key, value = cookie.split('=', 1); key = key.strip()
CookieKey(cookie) == Strip(SubSeq(cookie, 1, FirstIndex(cookie, "=") - 1))

\* value = value.split(';')[0].strip()
CookieValue(cookie) ==
    Strip(Split(SubSeq(cookie, FirstIndex(cookie, "=") + 1, Len(cookie)), ";")[1])

\* The pairs of a Set-Cookie header that are kept, a later pair replacing an
\* earlier one of the same key
RECURSIVE KeptCookies(_, _, _)
KeptCookies(parts, keywords, acc) ==
    IF parts = <<>> THEN acc
    ELSE LET cookie == Head(parts)
             keep == HasChar(cookie, "=") /\ Matches(CookieKey(cookie), keywords)
         IN KeptCookies(Tail(parts), keywords,
                        IF keep THEN Put(acc, CookieKey(cookie), CookieValue(cookie))
                        ELSE acc)

\* response_headers.get('set-cookie', response_headers.get('Set-Cookie', ''))
SetCookieOf(headers) ==
    IF "set-cookie" \in DOMAIN headers THEN headers["set-cookie"]
    ELSE IF "Set-Cookie" \in DOMAIN headers THEN headers["Set-Cookie"]
    ELSE <<>>

\* response_headers.get('set-cookie', '')
BridgeSetCookieOf(headers) ==
    IF "set-cookie" \in DOMAIN headers THEN headers["set-cookie"] ELSE <<>>

\* session_manager.py lines 320-329: new_cookies
NewCookies(req) ==
    KeptCookies(Split(SetCookieOf(req.headers), ";"), CookieKeywords, NoKeys)

\* A response body: the empty string, a text that is no JSON, or the text of
\* a JSON value
EmptyBody == [kind |-> "empty"]
Garbage == [kind |-> "garbage"]
JsonBody(v) == [kind |-> "json", v |-> v]

JStr(s) == [t |-> "str", s |-> s]
JNum == [t |-> "number"]
JArr == [t |-> "array"]
JObj(fields) == [t |-> "object", fields |-> fields]

\* (mutant) a value of ten characters is long enough
QualifiesFromTen(fields, k, keywords) ==
    /\ Matches(k, keywords)
    /\ fields[k].t = "str"
    /\ Len(fields[k].s) >= TokenMinLen

\* isinstance(value, str) and len(value) > 10, under a key that matches
Qualifies(fields, k, keywords) ==
    /\ Matches(k, keywords)
    /\ fields[k].t = "str"
    /\ Len(fields[k].s) > TokenMinLen

\* if response_body: body_json = json.loads(response_body);
\* if isinstance(body_json, dict): the top-level fields that qualify
KeptTokens(body, keywords) ==
    IF body.kind = "json" /\ body.v.t = "object"
    THEN LET f == body.v.fields
             keys == {k \in DOMAIN f : Qualifies(f, k, keywords)}
         IN [k \in keys |-> f[k].s]
    ELSE NoKeys

\* session_manager.py lines 332-343: new_tokens
NewTokens(req) == KeptTokens(req.body, TokenKeywords)

\* dict.update
Merge(old, new) ==
    [k \in DOMAIN old \cup DOMAIN new |-> IF k \in DOMAIN new THEN new[k] ELSE old[k]]

\* request.get('url', '').split('/')[2], or IndexError
UrlHasDomain(url) == Len(Split(url, <<"/">>[1])) >= 3
UrlDomain(url) == Split(url, <<"/">>[1])[3]

\* d.get(k, {})
GetOr(d, k) == IF k \in DOMAIN d THEN d[k] ELSE NoKeys

\* socket_bridge.py lines 379-394: the kept pairs are stored under the
\* request's domain; with no domain in the url the first of them raises
\* IndexError, which ends _extract_tokens
BridgeNewCookies(req) ==
    KeptCookies(Split(BridgeSetCookieOf(req.headers), <<";">>[1]),
                BridgeCookieKeywords, NoKeys)

\* socket_bridge.py lines 397-413: the qualifying fields are stored under the
\* request's domain; with no domain in the url the first of them raises
\* IndexError, which the inner except swallows
BridgeNewTokens(req) == KeptTokens(req.body, BridgeTokenKeywords)

BridgeStore(sess, domain, field, new) ==
    IF DOMAIN new = {} THEN sess
    ELSE LET entry == GetOr(sess, domain)
         IN Put(sess, domain, Put(entry, field, Merge(GetOr(entry, field), new)))

\* self.sessions after _extract_tokens(req)
BridgeAfterExtract(sess, req) ==
    IF ~UrlHasDomain(req.url) THEN sess
    ELSE BridgeStore(BridgeStore(sess, UrlDomain(req.url), "cookies",
                                 BridgeNewCookies(req)),
                     UrlDomain(req.url), "tokens", BridgeNewTokens(req))

----------------------------------------------------------------------------
(* Inputs *)

CookieDicts == {DictVal([sid |-> "v1"]), DictVal([sid |-> "v2"])}

ActiveInputs == [is_active : {0, 1}]

UpdateInputs ==
    {NoKeys}
    \cup [cookies : CookieDicts]
    \cup ActiveInputs
    \cup [last_used : {0}]
    \cup [cookies : CookieDicts, last_used : {0}]

\* The ids a caller passes: those of the stored sessions, and one of no session
UnknownId == SessionId("a.com", -1)
SessionIds == DOMAIN db \cup {UnknownId}

\* The parts of a Set-Cookie header
CookieParts ==
    {<<"t", "o", "k", "e", "n", "=", "a", "b", "c">>, <<"t", "o", "k", "e", "n", "=", "d", "e", "f">>, <<" ", "J", "W", "T", " ", "=", " ", "x", "=", "y", " ">>, <<"s", "i", "d", "=", "1">>, <<"B", "e", "a", "r", "e", "r", "=", "b">>, <<"P", "a", "t", "h">>}

RECURSIVE Join(_)
Join(parts) ==
    IF parts = <<>> THEN <<>>
    ELSE IF Len(parts) = 1 THEN parts[1]
    ELSE parts[1] \o <<";">> \o Join(Tail(parts))

CookieHeaders ==
    {Join(p) : p \in UNION {[1..n -> CookieParts] : n \in 0..MaxParts}}

HeaderDicts ==
    {NoKeys}
    \cup {[n \in {"set-cookie"} |-> h] : h \in CookieHeaders}
    \cup {[n \in {"Set-Cookie"} |-> h] : h \in CookieParts}

Long == <<"0", "1", "2", "3", "4", "5", "6", "7", "8", "9", "a">>
Short == <<"0", "1", "2", "3", "4", "5", "6", "7", "8", "9">>

BodyKeys == {<<"a", "c", "c", "e", "s", "s", "_", "t", "o", "k", "e", "n">>, <<"A", "u", "t", "h">>, <<"b", "e", "a", "r", "e", "r">>, <<"i", "d">>}
BodyValues == {JStr(Long), JStr(Short), JNum, JObj([k \in {K_token} |-> JStr(Long)])}

BodyObjects ==
    UNION {[keys -> BodyValues] :
             keys \in {ks \in SUBSET BodyKeys : Cardinality(ks) <= MaxFields}}

Bodies ==
    {EmptyBody, Garbage, JsonBody(JArr), JsonBody(JStr(Long))}
    \cup {JsonBody(JObj(f)) : f \in BodyObjects}

\* A url with a domain, and one without
Urls == {<<"h", ":", "/", "/", "a", "/", "x">>, <<"a", "/", "x">>}

Requests ==
    [url : Urls, headers : HeaderDicts, body : {EmptyBody}]
    \cup [url : Urls, headers : {NoKeys}, body : Bodies]
    \cup [url : Urls, headers : {[n \in {"set-cookie"} |-> <<"t", "o", "k", "e", "n", "=", "a", "b", "c">>]},
          body : {JsonBody(JObj([k \in {<<"a", "c", "c", "e", "s", "s", "_", "t", "o", "k", "e", "n">>} |-> JStr(Long)]))}]

\* The requests of the runs that merge one after another
MergeRequests ==
    [url : {<<"h", ":", "/", "/", "a", "/", "x">>},
     headers : {[n \in {"set-cookie"} |-> h] :
                  h \in {<<"t", "o", "k", "e", "n", "=", "a", "b", "c", ";", "t", "o", "k", "e", "n", "=", "d", "e", "f">>, <<"t", "o", "k", "e", "n", "=", "d", "e", "f", ";", "s", "i", "d", "=", "1", ";", "t", "o", "k", "e", "n", "=", "a", "b", "c">>,
                         <<"J", "W", "T", "=", "x">>}},
     body : {EmptyBody, JsonBody(JObj([k \in {<<"a", "c", "c", "e", "s", "s", "_", "t", "o", "k", "e", "n">>} |-> JStr(Long)]))}]

\* What earlier requests have left: in the bridge, and in the sessions table
StoredCookies == [k \in {K_token, K_session} |-> <<"o", "l", "d">>]
StoredTokens == [k \in {<<"a", "c", "c", "e", "s", "s", "_", "t", "o", "k", "e", "n">>, <<"r", "e", "f", "r", "e", "s", "h", "_", "t", "o", "k", "e", "n">>} |-> <<"0", "l", "d", "T", "0", "k", "e", "n", "0", "l", "d", "T", "0", "k", "e", "n">>]

StoredBridge ==
    [d \in {<<"a">>} |-> [cookies |-> StoredCookies, tokens |-> StoredTokens]]

StoredRow ==
    [domain |-> "b.com",
     cookies |-> JsonText(StoredCookies),
     tokens |-> JsonText(StoredTokens),
     headers |-> JsonText(NoKeys),
     created_at |-> 0,
     last_used |-> 0,
     expires_at |-> SessionTTL,
     is_active |-> 1]

StoredDb == [sid \in {SessionId("b.com", 0)} |-> StoredRow]

----------------------------------------------------------------------------
(* Operations of SessionManager, each as one call *)

\* create_session(domain): INSERT, then add to the cache.  A second session
\* of the same domain at the same instant has the same id and the INSERT
\* raises IntegrityError.
CreateSessionEffect(domain) ==
    LET sid == SessionId(domain, clock) IN
    IF sid \in DOMAIN db
    THEN /\ UNCHANGED <<db, active_sessions>>
    ELSE /\ db' = Put(db, sid, RowOf(NewSession(sid, domain)))
         /\ active_sessions' = Put(active_sessions, sid, NewSession(sid, domain))

CreateSession(domain) ==
    /\ Cardinality(DOMAIN db) < MaxSessions
    /\ CreateSessionEffect(domain)
    /\ lastOp' = [op |-> "create_session", domain |-> domain,
                  raised |-> SessionId(domain, clock) \in DOMAIN db,
                  ret |-> SessionId(domain, clock)]
    /\ UNCHANGED <<clock, restOfSess>>

\* The cache after get_session(sid)
CacheAfterGet(sid) ==
    IF sid \in DOMAIN active_sessions THEN active_sessions
    ELSE IF sid \in DOMAIN db THEN Put(active_sessions, sid, ParseRow(sid))
    ELSE active_sessions

GetSession(sid) ==
    /\ active_sessions' = CacheAfterGet(sid)
    /\ lastOp' = [op |-> "get_session", sid |-> sid,
                  ret |-> IF sid \in DOMAIN active_sessions'
                          THEN active_sessions'[sid] ELSE None]
    /\ UNCHANGED <<db, clock, restOfSess>>

UpdateSession(sid, updates) ==
    LET loaded == CacheAfterGet(sid) IN
    /\ IF sid \notin DOMAIN loaded
       THEN /\ UNCHANGED <<db, active_sessions>>
            /\ lastOp' = [op |-> "update_session", sid |-> sid,
                          updates |-> updates, ret |-> FALSE]
       ELSE /\ active_sessions' =
                  [loaded EXCEPT ![sid] = CacheUpdate(@, updates)]
            /\ db' = [db EXCEPT ![sid] = RowUpdate(@, updates)]
            /\ lastOp' = [op |-> "update_session", sid |-> sid,
                          updates |-> updates, ret |-> TRUE]
    /\ UNCHANGED <<clock, restOfSess>>

GetSessionForDomain(domain, create_if_missing) ==
    /\ \/ \E sid \in LatestActive(domain) :
            /\ active_sessions' = Put(active_sessions, sid, ParseRow(sid))
            /\ db' = [db EXCEPT ![sid].last_used = clock]
            /\ lastOp' = [op |-> "get_session_for_domain", domain |-> domain,
                          create |-> create_if_missing, found |-> TRUE,
                          raised |-> FALSE, ret |-> ParseRow(sid)]
       \/ /\ LatestActive(domain) = {}
          /\ create_if_missing
          /\ Cardinality(DOMAIN db) < MaxSessions
          /\ CreateSessionEffect(domain)
          /\ lastOp' = [op |-> "get_session_for_domain", domain |-> domain,
                        create |-> create_if_missing, found |-> FALSE,
                        raised |-> SessionId(domain, clock) \in DOMAIN db,
                        ret |-> SessionId(domain, clock)]
       \/ /\ LatestActive(domain) = {}
          /\ ~create_if_missing
          /\ UNCHANGED <<db, active_sessions>>
          /\ lastOp' = [op |-> "get_session_for_domain", domain |-> domain,
                        create |-> create_if_missing, found |-> FALSE,
                        raised |-> FALSE, ret |-> None]
    /\ UNCHANGED <<clock, restOfSess>>

\* (mutant) the pass switches off the sessions whose expiry has passed
SweepDeactivates ==
    /\ db' = [sid \in DOMAIN db |->
                IF db[sid].expires_at < clock
                THEN [db[sid] EXCEPT !.is_active = 0] ELSE db[sid]]
    /\ UNCHANGED active_sessions

\* One pass of _auto_refresh_sessions: print the expiring sessions
SweepEffect ==
    UNCHANGED <<db, active_sessions>>

AutoRefreshSessions ==
    /\ SweepEffect
    /\ lastOp' = [op |-> "sweep", reported |-> Expiring]
    /\ UNCHANGED <<clock, restOfSess>>

\* SessionManager(): a new manager over the same database starts with an
\* empty cache
NewManager ==
    /\ \A t \in DOMAIN threads : threads[t].pc = "idle"
    /\ active_sessions' = <<>>
    /\ captcha_cache' = <<>>
    /\ lastOp' = [op |-> "init"]
    /\ UNCHANGED <<db, clock, thrVars, brVars, capRest, toolVars>>

\* extract_tokens_from_request(session_id, request): the two dictionaries are
\* merged into the cached session's and stored, tokens first, each with
\* update_session.  A cached session made by create_session holds its tokens
\* and cookies as the text '{}', which has no update method: AttributeError.
ExtractTokensFromRequest(sid) ==
    LET cached == CacheAfterGet(sid)
        new_tokens == NewTokens(request)
        new_cookies == NewCookies(request)
        done(raised, ret) ==
            lastOp' = [op |-> "extract_tokens_from_request", sid |-> sid,
                       found |-> sid \in DOMAIN cached, raised |-> raised,
                       new_tokens |-> new_tokens, new_cookies |-> new_cookies,
                       ret |-> ret]
    IN
    /\ request # None
    /\ IF sid \notin DOMAIN cached
       THEN /\ UNCHANGED <<db, active_sessions>>
            /\ done(FALSE, None)
       ELSE LET s0 == cached[sid]
                hasTokens == DOMAIN new_tokens # {}
                hasCookies == DOMAIN new_cookies # {}
                tokensUpdate ==
                    [tokens |-> DictVal(Merge(s0.tokens.m, new_tokens))]
                s1 == IF hasTokens THEN CacheUpdate(s0, tokensUpdate) ELSE s0
                r1 == IF hasTokens THEN RowUpdate(db[sid], tokensUpdate)
                      ELSE db[sid]
                cookiesUpdate ==
                    [cookies |-> DictVal(Merge(s1.cookies.m, new_cookies))]
                s2 == IF hasCookies THEN CacheUpdate(s1, cookiesUpdate) ELSE s1
                r2 == IF hasCookies THEN RowUpdate(r1, cookiesUpdate) ELSE r1
            IN IF hasTokens /\ s0.tokens.kind # "dict"
               THEN /\ active_sessions' = cached
                    /\ UNCHANGED db
                    /\ done(TRUE, None)
               ELSE IF hasCookies /\ s1.cookies.kind # "dict"
               THEN /\ active_sessions' = [cached EXCEPT ![sid] = s1]
                    /\ db' = [db EXCEPT ![sid] = r1]
                    /\ done(TRUE, None)
               ELSE /\ active_sessions' = [cached EXCEPT ![sid] = s2]
                    /\ db' = [db EXCEPT ![sid] = r2]
                    /\ done(FALSE, hasTokens \/ hasCookies)
    /\ UNCHANGED <<clock, thrVars, brVars, capVars, toolVars>>

\* SocketBridge._extract_tokens(request)
BridgeExtractTokens ==
    /\ request # None
    /\ sessions' = BridgeAfterExtract(sessions, request)
    /\ lastOp' = [op |-> "bridge_extract_tokens"]
    /\ UNCHANGED <<sessVars, thrVars, request, capVars, toolVars>>

Tick(instants) ==
    /\ \E t \in instants : t > clock /\ clock' = t
    /\ lastOp' = [op |-> "tick"]
    /\ UNCHANGED <<db, active_sessions, restOfSess>>

Threads == {1, 2}
NoThread == 0

\* Seconds without browser activity after which the monitor disconnects
BrowserTimeout == 60
SecondsPerDay == 86400

\* The keys of AutomationController.running_tools
ControllerTools == {"api_tester", "sms_panel", "socket_bridge", "session_manager"}

\* The connections the bridge accepts
ClientIds == {1, 2}

\* A local of _handle_ws_client that no statement has bound
Unbound == "(unbound)"

NotStarted == [pc |-> "none", client_type |-> Unbound, message |-> None]

\* The keys of SocketBridge.active_tools
Tools == {"api_tester", "sms_panel", "dev_tools"}

\* SessionManager.__init__, the CAPTCHA side
InitCaptcha ==
    /\ captcha_cache = <<>>
    /\ captcha_dir = <<>>
    /\ captcha_solutions = <<>>
    /\ now = 0
    /\ calls = 0

\* The names of the services of the runs about the core manager
ServiceNames == {"x11", "taskbar"}

\* The tools as constructed
InitTools ==
    /\ current_session = None
    /\ data_dir = <<>>
    /\ active_tools = [t \in Tools |-> FALSE]
    /\ desktop_to_browser = <<>>
    /\ clients = <<>>
    /\ browser_connected = FALSE
    /\ handlers = [c \in ClientIds |-> NotStarted]
    /\ peer = [c \in ClientIds |-> "none"]
    /\ sent = [c \in ClientIds |-> <<>>]
    /\ taken = 0
    /\ browser_to_desktop = <<>>
    /\ running_tools = [t \in ControllerTools |-> None]
    /\ processes = <<>>
    /\ runners = <<>>
    /\ controller_browser = [connected |-> FALSE, active |-> FALSE, last |-> 0]
    /\ workers = <<>>
    /\ ui_queue = <<>>
    /\ history = <<>>
    /\ response_editor = [kind |-> "empty"]
    /\ services = [n \in ServiceNames |-> None]
    /\ service_processes = <<>>
    /\ monitors = <<>>

Idle == [pc |-> "idle"]

Init ==
    /\ db = <<>>
    /\ active_sessions = <<>>
    /\ clock = 0
    /\ session_lock = NoThread
    /\ threads = [t \in Threads |-> Idle]
    /\ sessions = <<>>
    /\ request = None
    /\ InitCaptcha
    /\ InitTools
    /\ lastOp = [op |-> "init"]

\* The session store over a week: sessions are created, looked up by domain,
\* switched off and on, and swept
Next ==
    \/ \E d \in Domains : CreateSession(d)
    \/ \E sid \in SessionIds, u \in ActiveInputs : UpdateSession(sid, u)
    \/ \E d \in Domains, c \in BOOLEAN : GetSessionForDomain(d, c)
    \/ AutoRefreshSessions
    \/ NewManager
    \/ Tick(Times)

Spec == Init /\ [][Next]_vars

\* The session store under updates
NextUpdate ==
    \/ \E d \in UpdateDomains : CreateSession(d)
    \/ \E sid \in SessionIds : GetSession(sid)
    \/ \E sid \in SessionIds, u \in UpdateInputs : UpdateSession(sid, u)
    \/ NewManager
    \/ Tick(UpdateTimes)

SpecUpdate == Init /\ [][NextUpdate]_vars

----------------------------------------------------------------------------
(* The same calls made from several threads, one statement at a time.  Each *)
(* step reads or writes the table or the cache once.                        *)

At(t, label) == threads[t].pc = label
Goto(t, rec) == threads' = [threads EXCEPT ![t] = rec]
Step(t, label) ==
    /\ lastOp' = [op |-> "step", thread |-> t, pc |-> label]
    /\ UNCHANGED restOfThreads

\* create_session is called
CallCreate(t, domain) ==
    /\ At(t, "idle")
    /\ Goto(t, [pc |-> "cs_insert", domain |-> domain])
    /\ Step(t, "idle")
    /\ UNCHANGED <<sessVars, session_lock>>

\* create_session, lines 100-125: the session is built and inserted
CreateInsert(t) ==
    /\ At(t, "cs_insert")
    /\ Cardinality(DOMAIN db) < MaxSessions
    /\ LET sid == SessionId(threads[t].domain, clock) IN
       IF sid \in DOMAIN db
       THEN /\ Goto(t, Idle)
            /\ UNCHANGED db
       ELSE /\ db' = Put(db, sid, RowOf(NewSession(sid, threads[t].domain)))
            /\ Goto(t, [pc |-> "cs_cache", sid |-> sid,
                        session |-> NewSession(sid, threads[t].domain)])
    /\ Step(t, "cs_insert")
    /\ UNCHANGED <<active_sessions, clock, session_lock>>

\* create_session, line 128: self.active_sessions[session_id] = session_data
CreateCache(t) ==
    /\ At(t, "cs_cache")
    /\ active_sessions' = Put(active_sessions, threads[t].sid, threads[t].session)
    /\ Goto(t, Idle)
    /\ Step(t, "cs_cache")
    /\ UNCHANGED <<db, clock, session_lock>>

\* get_session, lines 177-178: the cache is looked up
GetCheck(t, sid) ==
    /\ At(t, "idle")
    /\ IF sid \in DOMAIN active_sessions
       THEN Goto(t, Idle)
       ELSE Goto(t, [pc |-> "gs_select", sid |-> sid, locked |-> FALSE])
    /\ Step(t, "gs_check")
    /\ UNCHANGED <<sessVars, session_lock>>

\* get_session, lines 181-196: the row is read and parsed; with no row the
\* call returns None, and update_session, which made it, returns False and
\* leaves its with block
GetSelect(t) ==
    /\ At(t, "gs_select")
    /\ IF threads[t].sid \in DOMAIN db
       THEN /\ Goto(t, [threads[t] EXCEPT !.pc = "gs_cache"]
                          @@ [session |-> ParseRow(threads[t].sid)])
            /\ UNCHANGED session_lock
       ELSE /\ Goto(t, Idle)
            /\ session_lock' = IF threads[t].locked THEN NoThread
                               ELSE session_lock
    /\ Step(t, "gs_select")
    /\ UNCHANGED sessVars

\* get_session, line 199: self.active_sessions[session_id] = session
GetCache(t) ==
    /\ At(t, "gs_cache")
    /\ active_sessions' = Put(active_sessions, threads[t].sid, threads[t].session)
    /\ IF threads[t].locked
       THEN Goto(t, [pc |-> "us_cache", sid |-> threads[t].sid,
                     updates |-> threads[t].updates])
       ELSE Goto(t, Idle)
    /\ Step(t, "gs_cache")
    /\ UNCHANGED <<db, clock, session_lock>>

\* update_session, line 135: with self.session_lock
UpdateLock(t, sid, updates) ==
    /\ At(t, "idle")
    /\ session_lock = NoThread
    /\ session_lock' = t
    /\ Goto(t, [pc |-> "us_check", sid |-> sid, updates |-> updates])
    /\ Step(t, "us_lock")
    /\ UNCHANGED sessVars

\* update_session, lines 136-138, and get_session, line 177
UpdateCheck(t) ==
    /\ At(t, "us_check")
    /\ IF threads[t].sid \in DOMAIN active_sessions
       THEN Goto(t, [threads[t] EXCEPT !.pc = "us_cache"])
       ELSE Goto(t, [pc |-> "gs_select", sid |-> threads[t].sid,
                     updates |-> threads[t].updates, locked |-> TRUE])
    /\ Step(t, "us_check")
    /\ UNCHANGED <<sessVars, session_lock>>

\* update_session, lines 143-145: the cached session is updated
UpdateCache(t) ==
    /\ At(t, "us_cache")
    /\ IF threads[t].sid \in DOMAIN active_sessions
       THEN active_sessions' =
              [active_sessions EXCEPT
                 ![threads[t].sid] = CacheUpdate(@, threads[t].updates)]
       ELSE UNCHANGED active_sessions
    /\ Goto(t, [threads[t] EXCEPT !.pc = "us_store"])
    /\ Step(t, "us_cache")
    /\ UNCHANGED <<db, clock, session_lock>>

\* update_session, lines 148-170: the row is updated
UpdateStore(t) ==
    /\ At(t, "us_store")
    /\ db' = [db EXCEPT ![threads[t].sid] = RowUpdate(@, threads[t].updates)]
    /\ Goto(t, [threads[t] EXCEPT !.pc = "us_unlock"])
    /\ Step(t, "us_store")
    /\ UNCHANGED <<active_sessions, clock, session_lock>>

\* update_session, line 172: the with block is left and True returned
UpdateUnlock(t) ==
    /\ At(t, "us_unlock")
    /\ session_lock' = NoThread
    /\ Goto(t, Idle)
    /\ Step(t, "us_unlock")
    /\ UNCHANGED sessVars

\* get_session_for_domain, lines 206-227: the latest active row is selected;
\* with none, create_session is called or None returned
DomainSelect(t, domain, create_if_missing) ==
    /\ At(t, "idle")
    /\ \/ \E sid \in LatestActive(domain) :
            Goto(t, [pc |-> "gd_cache", sid |-> sid, session |-> ParseRow(sid)])
       \/ /\ LatestActive(domain) = {}
          /\ IF create_if_missing
             THEN Goto(t, [pc |-> "cs_insert", domain |-> domain])
             ELSE Goto(t, Idle)
    /\ Step(t, "gd_select")
    /\ UNCHANGED <<sessVars, session_lock>>

\* get_session_for_domain, line 231: self.active_sessions[session_id] = session
DomainCache(t) ==
    /\ At(t, "gd_cache")
    /\ active_sessions' = Put(active_sessions, threads[t].sid, threads[t].session)
    /\ Goto(t, [pc |-> "gd_touch", sid |-> threads[t].sid])
    /\ Step(t, "gd_cache")
    /\ UNCHANGED <<db, clock, session_lock>>

\* get_session_for_domain, lines 234-238: last_used is stored
DomainTouch(t) ==
    /\ At(t, "gd_touch")
    /\ db' = [db EXCEPT ![threads[t].sid].last_used = clock]
    /\ Goto(t, Idle)
    /\ Step(t, "gd_touch")
    /\ UNCHANGED <<active_sessions, clock, session_lock>>

ThreadInputs == [cookies : {DictVal([sid |-> "v1"])}]

NextThreads ==
    \/ \E t \in Threads, d \in UpdateDomains : CallCreate(t, d)
    \/ \E t \in Threads : CreateInsert(t)
    \/ \E t \in Threads : CreateCache(t)
    \/ \E t \in Threads, sid \in SessionIds : GetCheck(t, sid)
    \/ \E t \in Threads : GetSelect(t)
    \/ \E t \in Threads : GetCache(t)
    \/ \E t \in Threads, sid \in SessionIds, u \in ThreadInputs :
          UpdateLock(t, sid, u)
    \/ \E t \in Threads : UpdateCheck(t)
    \/ \E t \in Threads : UpdateCache(t)
    \/ \E t \in Threads : UpdateStore(t)
    \/ \E t \in Threads : UpdateUnlock(t)
    \/ \E t \in Threads, d \in UpdateDomains, c \in BOOLEAN :
          DomainSelect(t, d, c)
    \/ \E t \in Threads : DomainCache(t)
    \/ \E t \in Threads : DomainTouch(t)
    \/ NewManager
    \/ Tick(UpdateTimes)

SpecThreads == Init /\ [][NextThreads]_vars

----------------------------------------------------------------------------
(* Extraction from one captured request, by the session manager and by the *)
(* bridge, over what earlier requests have left                             *)

InitExtract ==
    /\ \/ db = NoKeys /\ sessions = NoKeys
       \/ db = StoredDb /\ sessions = StoredBridge
    /\ active_sessions = <<>>
    /\ clock = 0
    /\ session_lock = NoThread
    /\ threads = [t \in Threads |-> Idle]
    /\ request \in Requests
    /\ InitCaptcha
    /\ InitTools
    /\ lastOp = [op |-> "init"]

NextExtract ==
    \/ \E sid \in SessionIds : ExtractTokensFromRequest(sid)
    \/ BridgeExtractTokens

SpecExtract == InitExtract /\ [][NextExtract]_vars

----------------------------------------------------------------------------
(* The session manager as the captured requests of one domain arrive *)

\* A request is captured
Capture(req) ==
    /\ request' = req
    /\ lastOp' = [op |-> "capture"]
    /\ UNCHANGED <<sessVars, thrVars, sessions, capVars, toolVars>>

NextMerge ==
    \/ \E d \in UpdateDomains : CreateSession(d)
    \/ NewManager
    \/ \E req \in MergeRequests : Capture(req)
    \/ \E sid \in SessionIds : ExtractTokensFromRequest(sid)

SpecMerge == Init /\ [][NextMerge]_vars

----------------------------------------------------------------------------
(* The CAPTCHA solver *)

\* A Python str, as against None
StrVal(s) == [kind |-> "str", s |-> s]

\* bool(v) of a str or None
Truthy(v) == v.kind = "str" /\ v.s # <<>>

DigitChars == <<"0", "1", "2", "3", "4", "5", "6", "7", "8", "9">>
IsDigit(c) == \E i \in 1..10 : DigitChars[i] = c
DigitValue(c) == (CHOOSE i \in 1..10 : DigitChars[i] = c) - 1

\* int(text), of a run of digits
RECURSIVE ToInt(_)
ToInt(s) ==
    IF s = <<>> THEN 0
    ELSE 10 * ToInt(SubSeq(s, 1, Len(s) - 1)) + DigitValue(s[Len(s)])

RECURSIVE StrNat(_)
StrNat(n) ==
    IF n < 10 THEN <<DigitChars[n + 1]>>
    ELSE StrNat(n \div 10) \o <<DigitChars[(n % 10) + 1]>>

\* str(n)
Str(n) == IF n < 0 THEN <<"-">> \o StrNat(0 - n) ELSE StrNat(n)

\* re.findall(r'\d+', s): the maximal runs of digits, left to right
RECURSIVE FindNumbers(_)
FindNumbers(s) ==
    IF s = <<>> THEN <<>>
    ELSE IF ~IsDigit(Head(s)) THEN FindNumbers(Tail(s))
    ELSE LET n == CHOOSE n \in 1..Len(s) :
                      /\ \A i \in 1..n : IsDigit(s[i])
                      /\ n = Len(s) \/ ~IsDigit(s[n + 1])
         IN <<SubSeq(s, 1, n)>> \o FindNumbers(SubSeq(s, n + 1, Len(s)))

\* The multiplication sign and the division sign, one character each
MulSign == "U+00D7"
DivSign == "U+00F7"

W_plus == <<"p", "l", "u", "s">>
W_minus == <<"m", "i", "n", "u", "s">>
W_times == <<"t", "i", "m", "e", "s">>
W_divide == <<"d", "i", "v", "i", "d", "e">>

\* (mutant) times is looked for before minus
MathSolutionTimesFirst(question) ==
    LET numbers == FindNumbers(question)
        a == ToInt(numbers[1])
        b == ToInt(numbers[2])
        low == Lower(question)
    IN IF Len(numbers) < 2 THEN None
       ELSE IF Contains(low, W_plus) \/ HasChar(question, "+")
       THEN StrVal(Str(a + b))
       ELSE IF \/ Contains(low, W_times)
               \/ HasChar(question, MulSign)
               \/ HasChar(question, "*")
       THEN StrVal(Str(a * b))
       ELSE IF Contains(low, W_minus) \/ HasChar(question, "-")
       THEN StrVal(Str(a - b))
       ELSE IF \/ Contains(low, W_divide)
               \/ HasChar(question, DivSign)
               \/ HasChar(question, "/")
       THEN IF b # 0 THEN StrVal(Str(a \div b)) ELSE None
       ELSE None

\* The math branch of solve_captcha
MathSolution(question) ==
    LET numbers == FindNumbers(question)
        a == ToInt(numbers[1])
        b == ToInt(numbers[2])
        low == Lower(question)
    IN IF Len(numbers) < 2 THEN None
       ELSE IF Contains(low, W_plus) \/ HasChar(question, "+")
       THEN StrVal(Str(a + b))
       ELSE IF Contains(low, W_minus) \/ HasChar(question, "-")
       THEN StrVal(Str(a - b))
       ELSE IF \/ Contains(low, W_times)
               \/ HasChar(question, MulSign)
               \/ HasChar(question, "*")
       THEN StrVal(Str(a * b))
       ELSE IF \/ Contains(low, W_divide)
               \/ HasChar(question, DivSign)
               \/ HasChar(question, "/")
       THEN IF b # 0 THEN StrVal(Str(a \div b)) ELSE None
       ELSE None

IsB64(c) ==
    \/ \E i \in 1..26 : UpperChars[i] = c \/ LowerChars[i] = c
    \/ IsDigit(c)
    \/ c \in {"+", "/"}

\* binascii.a2b_base64, not strict: characters outside the alphabet are
\* skipped, a pad that completes a group of four ends the data, and data
\* that ends inside a group is an error.  The bytes are those the kept
\* characters encode.
RECURSIVE B64Scan(_, _, _, _)
B64Scan(s, quad, pads, data) ==
    IF s = <<>>
    THEN IF quad = 0 THEN [ok |-> TRUE, bytes |-> <<"bytes", data>>]
         ELSE [ok |-> FALSE]
    ELSE IF Head(s) = "="
    THEN IF quad >= 2 /\ quad + pads + 1 >= 4
         THEN [ok |-> TRUE, bytes |-> <<"bytes", data>>]
         ELSE B64Scan(Tail(s), quad, IF quad >= 2 THEN pads + 1 ELSE pads, data)
    ELSE IF ~IsB64(Head(s)) THEN B64Scan(Tail(s), quad, pads, data)
    ELSE B64Scan(Tail(s), (quad + 1) % 4, 0, Append(data, Head(s)))

\* base64.b64decode(image_data)
B64Decode(s) == B64Scan(s, 0, 0, <<>>)

\* hashlib.md5(text.encode()).hexdigest()
Md5(text) == [kind |-> "md5", text |-> text]

\* hashlib.md5(str(captcha_data).encode()).hexdigest()[:16]
CaptchaId(captcha_data) == <<"md5_16", captcha_data>>

\* captcha_data.get(k, default)
Get(d, k, default) == IF k \in DOMAIN d THEN d[k] ELSE default

CaptchaType(d) == Get(d, "type", "unknown")
Question(d) == Get(d, "question", <<>>)
ImageData(d) == Get(d, "image", <<>>)

\* (mutant) the key is a digest of the type and the text
CacheKeyByType(d) ==
    IF Question(d) # <<>> THEN Md5(<<CaptchaType(d), Question(d)>>)
    ELSE IF ImageData(d) # <<>> THEN Md5(<<CaptchaType(d), ImageData(d)>>)
    ELSE None

\* The cache key of a request
CacheKey(d) ==
    IF Question(d) # <<>> THEN Md5(Question(d))
    ELSE IF ImageData(d) # <<>> THEN Md5(ImageData(d))
    ELSE None

\* (mutant) an entry of 300 seconds is still served
FreshAtLimit(key) ==
    /\ key # None
    /\ key \in DOMAIN captcha_cache
    /\ now - captcha_cache[key].timestamp <= CacheTTL

\* cache_key and cache_key in self.captcha_cache and
\* time.time() - cached['timestamp'] < 300
Fresh(key) ==
    /\ key # None
    /\ key \in DOMAIN captcha_cache
    /\ now - captcha_cache[key].timestamp < CacheTTL

\* os.path.join(captcha_dir, f"captcha_{int(time.time())}.png")
CaptchaPath(t) == <<"c", "a", "p", "t", "c", "h", "a", "s", "/", "c", "a", "p", "t", "c", "h", "a", "_">> \o Str(t) \o <<".", "p", "n", "g">>

\* f"MANUAL:{filepath}"
Manual(filepath) == StrVal(<<"M", "A", "N", "U", "A", "L", ":">> \o filepath)

\* (mutant) the external service solves the image
CallCaptchaServiceSolves(image_path) == StrVal(<<"x", "k", "4", "f">>)

\* _call_captcha_service(image_path): no service is configured
CallCaptchaService(image_path) == None

\* What solve_captcha computes when the cache does not answer: the solution,
\* and the file it writes, if any
Solve(captcha_data, auto_solve) ==
    LET captcha_type == CaptchaType(captcha_data)
        question == Question(captcha_data)
        image_data == ImageData(captcha_data)
        filepath == CaptchaPath(now)
        decoded == B64Decode(image_data)
        service == CallCaptchaService(filepath)
    IN IF captcha_type = "math" /\ question # <<>>
       THEN [solution |-> MathSolution(question), saved |-> FALSE]
       ELSE IF captcha_type = "image" /\ image_data # <<>> /\ auto_solve
       THEN IF decoded.ok
            THEN [solution |-> IF Truthy(service) THEN service
                               ELSE Manual(filepath),
                  saved |-> TRUE, filepath |-> filepath,
                  bytes |-> decoded.bytes]
            ELSE [solution |-> None, saved |-> FALSE]
       ELSE [solution |-> None, saved |-> FALSE]

\* INSERT OR REPLACE INTO captcha_solutions ... COALESCE(used_count, 0) + 1
SolutionRow(captcha_data, solved) ==
    LET captcha_id == CaptchaId(captcha_data) IN
    [captcha_type |-> CaptchaType(captcha_data),
     question |-> Question(captcha_data),
     image_path |-> IF solved.saved THEN StrVal(solved.filepath) ELSE None,
     solution |-> solved.solution,
     solved_at |-> now,
     used_count |-> IF captcha_id \in DOMAIN captcha_solutions
                    THEN captcha_solutions[captcha_id].used_count + 1
                    ELSE 1]

\* solve_captcha(captcha_data, auto_solve)
SolveCaptcha(captcha_data, auto_solve) ==
    LET cache_key == CacheKey(captcha_data)
        solved == Solve(captcha_data, auto_solve)
        store == Truthy(solved.solution) /\ cache_key # None
        done(ret) ==
            lastOp' = [op |-> "solve_captcha", captcha_data |-> captcha_data,
                       auto_solve |-> auto_solve, ret |-> ret]
    IN
    /\ calls < MaxCalls
    /\ calls' = calls + 1
    /\ IF Fresh(cache_key)
       THEN /\ done(captcha_cache[cache_key].solution)
            /\ UNCHANGED <<captcha_cache, captcha_dir, captcha_solutions>>
       ELSE /\ captcha_dir' =
                  IF solved.saved
                  THEN Put(captcha_dir, solved.filepath, solved.bytes)
                  ELSE captcha_dir
            /\ captcha_cache' =
                  IF store
                  THEN Put(captcha_cache, cache_key,
                           [solution |-> solved.solution, timestamp |-> now])
                  ELSE captcha_cache
            /\ captcha_solutions' =
                  IF store
                  THEN Put(captcha_solutions, CaptchaId(captcha_data),
                           SolutionRow(captcha_data, solved))
                  ELSE captcha_solutions
            /\ done(solved.solution)
    /\ UNCHANGED <<now, sessVars, thrVars, brVars, toolVars>>

\* Time passes
TickSeconds(instants) ==
    /\ \E t \in instants : t > now /\ now' = t
    /\ lastOp' = [op |-> "tick"]
    /\ UNCHANGED <<sessVars, thrVars, brVars, captcha_cache, captcha_dir,
                   captcha_solutions, calls, toolVars>>

Image == <<"a", "G", "k", "=">>
BadImage == <<"a", "G", "k">>
Sum == <<"1", "+", "1">>

\* The requests of the runs about the cache
CaptchaRequests ==
    {<<>>,
     [type |-> "math", question |-> Sum],
     [type |-> "image", question |-> Sum, image |-> Image],
     [type |-> "image", image |-> Image],
     [type |-> "image", image |-> BadImage],
     [type |-> "audio", question |-> Sum],
     [type |-> "math", image |-> Image],
     [question |-> Sum]}

NextCaptcha ==
    \/ \E d \in CaptchaRequests, a \in BOOLEAN : SolveCaptcha(d, a)
    \/ TickSeconds(Seconds)
    \/ NewManager

SpecCaptcha == Init /\ [][NextCaptcha]_vars

\* The questions of the runs about arithmetic
Questions ==
    {<<"2", " ", "p", "l", "u", "s", " ", "3">>, <<"3", " ", "P", "L", "U", "S", " ", "4">>, <<"6", " ", "t", "i", "m", "e", "s", " ", "3", " ", "m", "i", "n", "u", "s", " ", "1">>, <<"9", "-", "4">>, <<"5", " ", "m", "i", "n", "u", "s", " ", "7">>,
     <<"2", "*", "3">>, <<"2", MulSign, "3">>, <<"1", "2", " ", "d", "i", "v", "i", "d", "e", " ", "5">>, <<"7", "/", "2">>,
     <<"8", DivSign, "2">>, <<"4", "/", "0">>, <<"5", " ", "p", "l", "u", "s">>, <<"1", " ", "a", "n", "d", " ", "2">>, <<"-", "3", " ", "p", "l", "u", "s", " ", "5">>}

MathRequests ==
    {[type |-> "math", question |-> q] : q \in Questions}
        \cup {[type |-> "image", question |-> <<"2", " ", "p", "l", "u", "s", " ", "3">>, image |-> Image]}

NextMath ==
    \/ \E d \in MathRequests : SolveCaptcha(d, TRUE)
    \/ TickSeconds(Seconds)

SpecMath == Init /\ [][NextMath]_vars

----------------------------------------------------------------------------
(* The callers of get_session_for_domain *)

\* AutomatedAPITester.perform_auto_login: the session of the domain is asked
\* for with create_if_missing=True and its 'id' is read.  For a domain with
\* no active session get_session_for_domain returns what create_session
\* returns, the session id, a str: session['id'] raises TypeError, and
\* login_completed is queued with success False.
PerformAutoLogin(domain) ==
    /\ \/ \E sid \in LatestActive(domain) :
            /\ active_sessions' = Put(active_sessions, sid, ParseRow(sid))
            /\ db' = [db EXCEPT ![sid].last_used = clock]
            /\ current_session' = ParseRow(sid).id
            /\ lastOp' = [op |-> "perform_auto_login", domain |-> domain,
                          found |-> TRUE, raised |-> FALSE, success |-> TRUE]
       \/ /\ LatestActive(domain) = {}
          /\ Cardinality(DOMAIN db) < MaxSessions
          /\ CreateSessionEffect(domain)
          /\ UNCHANGED current_session
          /\ lastOp' = [op |-> "perform_auto_login", domain |-> domain,
                        found |-> FALSE, raised |-> TRUE, success |-> FALSE]
    /\ UNCHANGED <<clock, thrVars, brVars, capVars, bridgeVars, wsVars,
                   httpVars, autoVars, testerVars, coreVars>>

NextLogin ==
    \/ \E d \in Domains : PerformAutoLogin(d)
    \/ \E sid \in SessionIds, u \in ActiveInputs : UpdateSession(sid, u)
    \/ NewManager
    \/ Tick(UpdateTimes)

SpecLogin == Init /\ [][NextLogin]_vars

----------------------------------------------------------------------------
(* The bridge as captured requests arrive *)

\* any(indicator in text.lower() for indicator in words)
AnyIn(text, words) == \E w \in words : Contains(Lower(text), w)

LoginIndicators == {<<"l", "o", "g", "i", "n">>, <<"s", "i", "g", "n", "i", "n">>, <<"a", "u", "t", "h">>, <<"a", "u", "t", "h", "e", "n", "t", "i", "c", "a", "t", "e">>, <<"p", "a", "s", "s", "w", "o", "r", "d">>}
CredentialFields == {<<"p", "a", "s", "s", "w", "o", "r", "d">>, <<"p", "a", "s", "s", "w", "d">>, <<"p", "w", "d">>, <<"u", "s", "e", "r", "n", "a", "m", "e">>, <<"e", "m", "a", "i", "l">>}

\* SocketBridge._is_login_request(request)
IsLoginRequest(req) ==
    \/ AnyIn(req.url, LoginIndicators)
    \/ req.requestBody.t = "str" /\ AnyIn(req.requestBody.s, CredentialFields)

\* request.get('requestBody', '').lower() of a request body that is no str:
\* AttributeError, when the url has not answered already
LoginCheckRaises(req) ==
    ~AnyIn(req.url, LoginIndicators) /\ req.requestBody.t # "str"

\* The entry _process_login_request makes for a domain
LoginTemplate(req) ==
    [login_url |-> req.url,
     login_method |-> req.method,
     login_headers |-> req.requestHeaders,
     login_body |-> req.requestBody,
     last_login |-> clock]

\* self.sessions after _process_login_request(req): the template is stored
\* only for a domain that has no entry; with no domain in the url IndexError
\* is raised and caught
AfterLogin(sess, req) ==
    IF UrlHasDomain(req.url) /\ UrlDomain(req.url) \notin DOMAIN sess
    THEN Put(sess, UrlDomain(req.url), LoginTemplate(req))
    ELSE sess

\* domain.replace('.', '_')
Underscored(domain) ==
    [i \in 1..Len(domain) |-> IF domain[i] = "." THEN "_" ELSE domain[i]]

RequestFile(req) == [file |-> "request", at |-> clock, of |-> req]
LoginFile(domain) == [file |-> "login", of |-> Underscored(domain)]

\* self.sessions and the files after one turn of the loop of
\* _process_captured_requests: the request is saved, its tokens are
\* extracted, and if it is a login its template is kept and the entry of its
\* domain is written to the login file.  An exception of _is_login_request
\* leaves the loop.
AfterRequest(st, req) ==
    LET extracted == BridgeAfterExtract(st.sessions, req)
        saved == Put(st.data_dir, RequestFile(req), req)
        after == IF IsLoginRequest(req) THEN AfterLogin(extracted, req)
                 ELSE extracted
    IN IF st.raised THEN st
       ELSE IF LoginCheckRaises(req)
       THEN [sessions |-> extracted, data_dir |-> saved, raised |-> TRUE]
       ELSE [sessions |-> after,
             data_dir |->
                 IF IsLoginRequest(req) /\ UrlHasDomain(req.url)
                 THEN Put(saved, LoginFile(UrlDomain(req.url)),
                          after[UrlDomain(req.url)])
                 ELSE saved,
             raised |-> FALSE]

\* _process_captured_requests(requests)
RECURSIVE AfterRequests(_, _)
AfterRequests(st, requests) ==
    IF requests = <<>> THEN st
    ELSE AfterRequests(AfterRequest(st, Head(requests)), Tail(requests))

\* One turn of the loop of _process_captured_requests: the request is saved,
\* its tokens are extracted, and if it is a login its template is kept and
\* the entry of its domain is written to the login file
ProcessCapturedRequest(req) ==
    LET after == AfterRequest([sessions |-> sessions, data_dir |-> data_dir,
                               raised |-> FALSE], req)
    IN
    /\ request' = req
    /\ sessions' = after.sessions
    /\ data_dir' = after.data_dir
    /\ lastOp' = [op |-> "process_captured_request",
                  is_login |-> IsLoginRequest(req)]
    /\ UNCHANGED <<sessVars, thrVars, capVars, appVars, active_tools,
                   desktop_to_browser, wsVars>>

TokenCookie == [n \in {"set-cookie"} |-> <<"t", "o", "k", "e", "n", "=", "a", "b", "c">>]

CapturedRequest(url, body, headers) ==
    [url |-> url, method |-> "POST", requestHeaders |-> NoKeys,
     requestBody |-> JStr(body), headers |-> headers, body |-> EmptyBody]

CaptureRequests ==
    {CapturedRequest(<<"h", ":", "/", "/", "a", "/", "l", "o", "g", "i", "n">>, <<"p", "w", "d", "=", "1">>, NoKeys),
     CapturedRequest(<<"h", ":", "/", "/", "a", "/", "l", "o", "g", "i", "n">>, <<>>, TokenCookie),
     CapturedRequest(<<"h", ":", "/", "/", "a", "/", "x">>, <<>>, TokenCookie),
     CapturedRequest(<<"h", ":", "/", "/", "a", "/", "x">>, <<"E", "m", "a", "i", "l", "=", "e">>, NoKeys),
     CapturedRequest(<<"h", ":", "/", "/", "b", "/", "x">>, <<>>, NoKeys),
     CapturedRequest(<<"b", "/", "s", "i", "g", "n", "i", "n">>, <<>>, TokenCookie)}

NextCapture ==
    \E req \in CaptureRequests : ProcessCapturedRequest(req)

SpecCapture == Init /\ [][NextCapture]_vars


----------------------------------------------------------------------------
(* The bridge as the messages of its clients arrive *)

JList(items) == [t |-> "list", items |-> items]

SmsIndicators == {<<"s", "m", "s">>, <<"m", "e", "s", "s", "a", "g", "e">>, <<"t", "e", "x", "t">>, <<"m", "m", "s">>, <<"t", "w", "i", "l", "i", "o">>, <<"n", "e", "x", "m", "o">>, <<"p", "l", "i", "v", "o">>}

\* msg.get(k, msg.get(alt, default))
GetEither(fields, k, alt, default) == Get(fields, k, Get(fields, alt, default))

\* The record _extract_sms_from_requests appends for one message
SmsRecord(fields, req) ==
    [id |-> GetEither(fields, <<"i", "d">>, <<"m", "e", "s", "s", "a", "g", "e", "_", "i", "d">>, JStr(<<>>)),
     from |-> GetEither(fields, <<"f", "r", "o", "m">>, <<"s", "e", "n", "d", "e", "r">>, JStr(<<>>)),
     to |-> GetEither(fields, <<"t", "o">>, <<"r", "e", "c", "i", "p", "i", "e", "n", "t">>, JStr(<<>>)),
     body |-> Get(fields, <<"b", "o", "d", "y">>, GetEither(fields, <<"t", "e", "x", "t">>, <<"m", "e", "s", "s", "a", "g", "e">>, JStr(<<>>))),
     timestamp |-> GetEither(fields, <<"t", "i", "m", "e", "s", "t", "a", "m", "p">>, <<"d", "a", "t", "e">>, JStr(Str(clock))),
     status |-> Get(fields, <<"s", "t", "a", "t", "u", "s">>, JStr(<<"u", "n", "k", "n", "o", "w", "n">>)),
     source |-> req.url]

\* The records appended from a list of messages: msg.get of a message that is
\* no dict raises, which ends the work on the request
RECURSIVE SmsRecords(_, _)
SmsRecords(items, req) ==
    IF items = <<>> \/ Head(items).t # "object" THEN <<>>
    ELSE <<SmsRecord(Head(items).fields, req)>> \o SmsRecords(Tail(items), req)

\* The records one request adds in _extract_sms_from_requests
SmsOf(req) ==
    IF AnyIn(req.url, SmsIndicators) /\ req.body.kind = "json"
           /\ req.body.v.t = "object"
    THEN LET f == req.body.v.fields
             messages == IF <<"m", "e", "s", "s", "a", "g", "e", "s">> \in DOMAIN f THEN f[<<"m", "e", "s", "s", "a", "g", "e", "s">>]
                         ELSE IF <<"s", "m", "s">> \in DOMAIN f THEN f[<<"s", "m", "s">>]
                         ELSE JList(<<>>)
         IN IF messages.t = "list" THEN SmsRecords(messages.items, req)
            ELSE <<>>
    ELSE <<>>

\* SocketBridge._extract_sms_from_requests(requests)
RECURSIVE ExtractSms(_)
ExtractSms(requests) ==
    IF requests = <<>> THEN <<>>
    ELSE SmsOf(Head(requests)) \o ExtractSms(Tail(requests))

Message(type, target, data) ==
    [type |-> type, target |-> target, data |-> data, timestamp |-> clock]

\* socket_bridge.py lines 291-308: what capture_data puts on
\* desktop_to_browser after the requests have been processed
Forwarded(requests, tools) ==
    (IF tools["api_tester"]
     THEN <<Message("api_requests", "api_tester", requests)>>
     ELSE <<>>)
        \o (IF tools["sms_panel"] /\ ExtractSms(requests) # <<>>
            THEN <<Message("sms_data", "sms_panel", ExtractSms(requests))>>
            ELSE <<>>)

\* SocketBridge.launch_tool(tool_name): a tool whose process was started is
\* marked active
AfterLaunch(tools, tool, started) ==
    IF tool \in {"api_tester", "sms_panel"} /\ started
    THEN [tools EXCEPT ![tool] = TRUE]
    ELSE tools

NotAvailable == StrVal(<<"C", "A", "P", "T", "C", "H", "A", "_", "S", "O", "L", "U", "T", "I", "O", "N", "_", "N", "O", "T", "_", "A", "V", "A", "I", "L", "A", "B", "L", "E">>)

BridgeCaptchaFile(t) == [file |-> "captcha", at |-> t]

\* SocketBridge.solve_captcha(captcha_data), lines 547-565
BridgeMathSolution(question) ==
    LET numbers == FindNumbers(question)
    IN IF (Contains(question, <<"W", "h", "a", "t", " ", "i", "s">>) \/ Contains(question, <<"C", "a", "l", "c", "u", "l", "a", "t", "e">>))
           /\ Len(numbers) >= 2
       THEN IF HasChar(question, "+")
            THEN StrVal(Str(ToInt(numbers[1]) + ToInt(numbers[2])))
            ELSE IF HasChar(question, "-")
            THEN StrVal(Str(ToInt(numbers[1]) - ToInt(numbers[2])))
            ELSE IF HasChar(question, MulSign) \/ HasChar(question, "*")
            THEN StrVal(Str(ToInt(numbers[1]) * ToInt(numbers[2])))
            ELSE NotAvailable
       ELSE NotAvailable

\* SocketBridge.solve_captcha(captcha_data): the solution and the files after
\* it
BridgeSolveCaptcha(captcha_data, files) ==
    LET captcha_type == CaptchaType(captcha_data)
        image_data == ImageData(captcha_data)
    IN IF captcha_type = "image" /\ image_data # <<>>
              /\ B64Decode(image_data).ok
       THEN [solution |-> [kind |-> "manual", file |-> BridgeCaptchaFile(now)],
             files |-> Put(files, BridgeCaptchaFile(now),
                           B64Decode(image_data).bytes)]
       ELSE IF captcha_type = "math"
       THEN [solution |-> BridgeMathSolution(Question(captcha_data)),
             files |-> files]
       ELSE [solution |-> NotAvailable, files |-> files]

\* The bridge after _process_client_message(client_id, message); started
\* tells whether a process the message asks for could be started.  An
\* exception ends the handling where it is raised.
AfterClientMessage(st, msg, started) ==
    IF msg.type = "capture_data"
    THEN LET done == AfterRequests([sessions |-> st.sessions,
                                    data_dir |-> st.data_dir,
                                    raised |-> FALSE], msg.requests)
         IN [sessions |-> done.sessions,
             data_dir |-> done.data_dir,
             active_tools |-> st.active_tools,
             queue |-> IF done.raised THEN st.queue
                       ELSE st.queue \o Forwarded(msg.requests, st.active_tools)]
    ELSE IF msg.type = "tool_status"
    THEN [st EXCEPT !.active_tools =
              IF msg.tool \in DOMAIN st.active_tools
              THEN [st.active_tools EXCEPT ![msg.tool] = (msg.status = "active")]
              ELSE st.active_tools]
    ELSE IF msg.type = "launch_request"
    THEN [st EXCEPT !.active_tools = AfterLaunch(st.active_tools, msg.tool, started)]
    ELSE IF msg.type = "captcha_request" /\ msg.captcha # None
    THEN LET solved == BridgeSolveCaptcha(msg.captcha.d, st.data_dir)
         IN [st EXCEPT !.data_dir = solved.files,
                       !.queue = st.queue \o
                           <<[type |-> "captcha_solution",
                              solution |-> solved.solution,
                              target |-> "browser",
                              timestamp |-> clock]>>]
    ELSE st

BridgeState ==
    [sessions |-> sessions, data_dir |-> data_dir,
     active_tools |-> active_tools, queue |-> desktop_to_browser]

\* _process_client_message(client_id, message), as one call
ProcessClientMessage(msg) ==
    \E started \in BOOLEAN :
        LET after == AfterClientMessage(BridgeState, msg, started)
        IN
        /\ Len(after.queue) <= MaxQueue
        /\ sessions' = after.sessions
        /\ data_dir' = after.data_dir
        /\ active_tools' = after.active_tools
        /\ desktop_to_browser' = after.queue
        /\ lastOp' = [op |-> "client_message", msg |-> msg]
        /\ UNCHANGED <<sessVars, thrVars, request, capVars, appVars, wsVars>>

BridgeRequest(url, requestBody, body) ==
    [url |-> url, method |-> "POST", requestHeaders |-> NoKeys,
     requestBody |-> requestBody, headers |-> NoKeys, body |-> body]

PlainRequest == BridgeRequest(<<"h", ":", "/", "/", "a", "/", "x">>, JStr(<<>>), EmptyBody)
FormRequest == BridgeRequest(<<"h", ":", "/", "/", "a", "/", "x">>, JObj(NoKeys), EmptyBody)
SmsFields == [k \in {<<"i", "d">>, <<"t", "e", "x", "t">>} |-> JStr(<<"h", "i">>)]
SmsRequest ==
    BridgeRequest(<<"h", ":", "/", "/", "a", "/", "s", "m", "s">>, JStr(<<>>),
                  JsonBody(JObj([k \in {<<"m", "e", "s", "s", "a", "g", "e", "s">>} |->
                                     JList(<<JObj(SmsFields), JNum>>)])))
CaptchaDict(d) == [kind |-> "dict", d |-> d]

ClientMessages ==
    {[type |-> "capture_data", requests |-> r] :
         r \in {<<PlainRequest>>, <<SmsRequest>>, <<FormRequest, PlainRequest>>}}
        \cup {[type |-> "tool_status", tool |-> t, status |-> s] :
                  t \in {"api_tester", "sms_panel", "other"},
                  s \in {"active", "idle"}}
        \cup {[type |-> "launch_request", tool |-> t] : t \in {"sms_panel", "other"}}
        \cup {[type |-> "captcha_request", captcha |-> c] :
                  c \in {None,
                         CaptchaDict([type |-> "math", question |-> <<"W", "h", "a", "t", " ", "i", "s", " ", "2", " ", "+", " ", "3">>]),
                         CaptchaDict([type |-> "image", image |-> Image])}}
        \cup {[type |-> "invalid"]}

NextBridgeMsg ==
    \E msg \in ClientMessages : ProcessClientMessage(msg)

SpecBridgeMsg == Init /\ [][NextBridgeMsg]_vars


----------------------------------------------------------------------------
(* The client handlers of the bridge, one thread for each connection, one   *)
(* call on the socket or the queue at a time                                *)

\* What a peer sends first: a JSON object naming its type or naming none,
\* a JSON value that is no object, or text that is no JSON
FirstMessages ==
    {[kind |-> "object", d |-> [type |-> "browser"]],
     [kind |-> "object", d |-> [type |-> "api_tester"]],
     [kind |-> "object", d |-> <<>>],
     [kind |-> "array"],
     [kind |-> "garbage"]}

\* What a peer sends later
LaterMessages ==
    {[type |-> "capture_data", requests |-> <<>>],
     [type |-> "captcha_request",
      captcha |-> CaptchaDict([type |-> "math", question |-> <<"W", "h", "a", "t", " ", "i", "s", " ", "2", " ", "+", " ", "3">>])],
     [type |-> "invalid"]}

HandlerAt(c, pc) == handlers[c].pc = pc
HandlerGoto(c, pc) == handlers' = [handlers EXCEPT ![c].pc = pc]

\* _websocket_handler accepts a connection and starts its handler thread
Connect(c) ==
    /\ peer[c] = "none"
    /\ peer' = [peer EXCEPT ![c] = "open"]
    /\ handlers' = [handlers EXCEPT ![c].pc = "start"]
    /\ lastOp' = [op |-> "connect", client |-> c]
    /\ UNCHANGED <<sessVars, thrVars, brVars, capVars, appVars, bridgeVars,
                   clients, browser_connected, sent, taken>>

\* socket_bridge.py lines 208-212
Register(c) ==
    /\ HandlerAt(c, "start")
    /\ clients' = Put(clients, c, [type |-> "unknown"])
    /\ HandlerGoto(c, "identify")
    /\ lastOp' = [op |-> "register", client |-> c]
    /\ UNCHANGED <<sessVars, thrVars, brVars, capVars, appVars, bridgeVars,
                   browser_connected, peer, sent, taken>>

\* socket_bridge.py lines 215-231 when the first recv returns a JSON object:
\* the type it names is kept in the local and in the entry, and switches the
\* flag of a browser or of a tool on
Identified(c, client_type) ==
    /\ handlers' = [handlers EXCEPT ![c].pc = "recv",
                                    ![c].client_type = client_type]
    /\ clients' = [clients EXCEPT ![c].type = client_type]
    /\ browser_connected' = (browser_connected \/ client_type = "browser")
    /\ active_tools' = IF client_type \in {"api_tester", "sms_panel"}
                       THEN [active_tools EXCEPT ![client_type] = TRUE]
                       ELSE active_tools

\* socket_bridge.py lines 215-231: the first recv blocks until the peer has
\* sent, closed or reset.  Nothing, or text that is no JSON, leaves the local
\* client_type unbound; a JSON value without get raises AttributeError and a
\* reset raises ConnectionResetError, both of which end the handler.
Identify(c) ==
    /\ HandlerAt(c, "identify")
    /\ \/ /\ peer[c] = "open"
          /\ \E first \in FirstMessages :
                 \/ /\ first.kind = "object"
                    /\ Identified(c, Get(first.d, "type", "unknown"))
                 \/ /\ first.kind = "garbage"
                    /\ HandlerGoto(c, "recv")
                    /\ UNCHANGED <<clients, browser_connected, active_tools>>
                 \/ /\ first.kind = "array"
                    /\ HandlerGoto(c, "cleanup")
                    /\ UNCHANGED <<clients, browser_connected, active_tools>>
       \/ /\ peer[c] = "closed"
          /\ HandlerGoto(c, "recv")
          /\ UNCHANGED <<clients, browser_connected, active_tools>>
       \/ /\ peer[c] = "reset"
          /\ HandlerGoto(c, "cleanup")
          /\ UNCHANGED <<clients, browser_connected, active_tools>>
    /\ lastOp' = [op |-> "identify", client |-> c]
    /\ UNCHANGED <<sessVars, thrVars, brVars, capVars, appVars, data_dir,
                   desktop_to_browser, peer, sent, taken>>

\* socket_bridge.py lines 234-244: the loop is entered while the client has
\* its entry; recv times out, returns what the peer has sent, returns b''
\* from a peer that has closed, or raises ConnectionResetError
Recv(c) ==
    /\ HandlerAt(c, "recv")
    /\ c \in DOMAIN clients
    /\ \/ /\ peer[c] = "open"
          /\ HandlerGoto(c, "poll")
          /\ UNCHANGED <<sessions, data_dir, active_tools, desktop_to_browser>>
       \/ /\ peer[c] = "open"
          /\ \E msg \in LaterMessages, started \in BOOLEAN :
                 LET after == AfterClientMessage(BridgeState, msg, started)
                 IN /\ taken + Len(after.queue) <= MaxTaken
                    /\ sessions' = after.sessions
                    /\ data_dir' = after.data_dir
                    /\ active_tools' = after.active_tools
                    /\ desktop_to_browser' = after.queue
          /\ HandlerGoto(c, "poll")
       \/ /\ peer[c] = "closed"
          /\ HandlerGoto(c, "poll")
          /\ UNCHANGED <<sessions, data_dir, active_tools, desktop_to_browser>>
       \/ /\ peer[c] = "reset"
          /\ HandlerGoto(c, "cleanup")
          /\ UNCHANGED <<sessions, data_dir, active_tools, desktop_to_browser>>
    /\ lastOp' = [op |-> "recv", client |-> c]
    /\ UNCHANGED <<sessVars, thrVars, request, capVars, appVars, clients,
                   browser_connected, peer, sent, taken>>

\* socket_bridge.py line 247: desktop_to_browser.empty()
Poll(c) ==
    /\ HandlerAt(c, "poll")
    /\ HandlerGoto(c, IF desktop_to_browser = <<>> THEN "recv" ELSE "get")
    /\ lastOp' = [op |-> "poll", client |-> c]
    /\ UNCHANGED <<sessVars, thrVars, brVars, capVars, appVars, bridgeVars,
                   clients, browser_connected, peer, sent, taken>>

\* socket_bridge.py line 248: get_nowait() takes the oldest message, or raises
\* queue.Empty when another handler has taken the last one
GetNowait(c) ==
    /\ HandlerAt(c, "get")
    /\ IF desktop_to_browser = <<>>
       THEN /\ HandlerGoto(c, "recv")
            /\ UNCHANGED <<desktop_to_browser, taken>>
       ELSE /\ handlers' = [handlers EXCEPT
                               ![c].pc = "send",
                               ![c].message = [n |-> taken + 1,
                                               m |-> Head(desktop_to_browser)]]
            /\ desktop_to_browser' = Tail(desktop_to_browser)
            /\ taken' = taken + 1
    /\ lastOp' = [op |-> "get_nowait", client |-> c]
    /\ UNCHANGED <<sessVars, thrVars, brVars, capVars, appVars, data_dir,
                   active_tools, clients, browser_connected, peer, sent>>

\* (mutant) every message taken is written to the socket
SendsToAny(message, client_type) == TRUE

\* socket_bridge.py line 249
SendsTo(message, client_type) ==
    message.target = client_type \/ message.target = "all"

\* socket_bridge.py lines 249-250: with client_type unbound the comparison
\* raises NameError; send to a peer that has reset raises
\* ConnectionResetError; send to a peer that has closed is accepted or raises
\* BrokenPipeError
Send(c) ==
    LET h == handlers[c]
    IN
    /\ HandlerAt(c, "send")
    /\ \/ /\ h.client_type # Unbound
          /\ SendsTo(h.message.m, h.client_type)
          /\ \/ /\ peer[c] \in {"open", "closed"}
                /\ sent' = [sent EXCEPT ![c] = Append(@, h.message)]
                /\ HandlerGoto(c, "recv")
             \/ /\ peer[c] \in {"closed", "reset"}
                /\ HandlerGoto(c, "cleanup")
                /\ UNCHANGED sent
       \/ /\ h.client_type = Unbound \/ ~SendsTo(h.message.m, h.client_type)
          /\ HandlerGoto(c, "recv")
          /\ UNCHANGED sent
    /\ lastOp' = [op |-> "send", client |-> c]
    /\ UNCHANGED <<sessVars, thrVars, brVars, capVars, appVars, bridgeVars,
                   clients, browser_connected, peer, taken>>

\* socket_bridge.py lines 262-276
Cleanup(c) ==
    /\ HandlerAt(c, "cleanup")
    /\ IF c \in DOMAIN clients
       THEN /\ browser_connected' =
                  (browser_connected /\ clients[c].type # "browser")
            /\ active_tools' =
                  IF clients[c].type # "browser"
                         /\ clients[c].type \in DOMAIN active_tools
                  THEN [active_tools EXCEPT ![clients[c].type] = FALSE]
                  ELSE active_tools
            /\ clients' = [d \in DOMAIN clients \ {c} |-> clients[d]]
       ELSE UNCHANGED <<browser_connected, active_tools, clients>>
    /\ HandlerGoto(c, "done")
    /\ lastOp' = [op |-> "cleanup", client |-> c]
    /\ UNCHANGED <<sessVars, thrVars, brVars, capVars, appVars, data_dir,
                   desktop_to_browser, peer, sent, taken>>

\* The peer closes its end
PeerClose(c) ==
    /\ peer[c] = "open"
    /\ peer' = [peer EXCEPT ![c] = "closed"]
    /\ lastOp' = [op |-> "peer_close", client |-> c]
    /\ UNCHANGED <<sessVars, thrVars, brVars, capVars, appVars, bridgeVars,
                   clients, browser_connected, handlers, sent, taken>>

\* The connection is reset
PeerReset(c) ==
    /\ peer[c] = "open"
    /\ peer' = [peer EXCEPT ![c] = "reset"]
    /\ lastOp' = [op |-> "peer_reset", client |-> c]
    /\ UNCHANGED <<sessVars, thrVars, brVars, capVars, appVars, bridgeVars,
                   clients, browser_connected, handlers, sent, taken>>

HandlerStep(c) ==
    \/ Register(c)
    \/ Identify(c)
    \/ Recv(c)
    \/ Poll(c)
    \/ GetNowait(c)
    \/ Send(c)
    \/ Cleanup(c)

NextClients ==
    \E c \in ClientIds :
        \/ Connect(c)
        \/ HandlerStep(c)
        \/ PeerClose(c)
        \/ PeerReset(c)

SpecClients == Init /\ [][NextClients]_vars

\* Every handler thread keeps running
SpecClientsFair ==
    SpecClients /\ \A c \in ClientIds : WF_vars(HandlerStep(c))


----------------------------------------------------------------------------
(* The HTTP server of the bridge, one request at a time *)

\* urlparse(path).path, of a path that may carry a query
UrlPath(path) == Split(path, "?")[1]

\* s.startswith(prefix)
StartsWith(s, prefix) ==
    Len(s) >= Len(prefix) /\ SubSeq(s, 1, Len(prefix)) = prefix

\* The key of active_tools a path segment spells, if any
ToolNamed(segment) ==
    IF segment = <<"a", "p", "i", "_", "t", "e", "s", "t", "e", "r">> THEN "api_tester"
    ELSE IF segment = <<"s", "m", "s", "_", "p", "a", "n", "e", "l">> THEN "sms_panel"
    ELSE IF segment = <<"d", "e", "v", "_", "t", "o", "o", "l", "s">> THEN "dev_tools"
    ELSE "other"

\* BridgeHandler.do_GET: the status lines sent and the tools after it
Got(path, started) ==
    LET p == UrlPath(path)
    IN IF p = <<"/", "s", "t", "a", "t", "u", "s">> \/ p = <<"/", "d", "a", "t", "a">>
       THEN [statuses |-> <<200>>, active_tools |-> active_tools]
       ELSE IF StartsWith(p, <<"/", "l", "a", "u", "n", "c", "h", "/">>)
       THEN [statuses |-> <<200>>,
             active_tools |-> AfterLaunch(active_tools,
                                          ToolNamed(Split(p, "/")[3]), started)]
       ELSE [statuses |-> <<404>>, active_tools |-> active_tools]

DoGET(path) ==
    \E started \in BOOLEAN :
        /\ active_tools' = Got(path, started).active_tools
        /\ lastOp' = [op |-> "do_GET", path |-> path,
                      statuses |-> Got(path, started).statuses]
        /\ UNCHANGED <<sessVars, thrVars, brVars, capVars, appVars, data_dir,
                       desktop_to_browser, wsVars>>

Notice(count) == [type |-> "new_captures", count |-> count, timestamp |-> clock]

\* SocketBridge.update_session(session_id, data)
AfterUpdateSession(sess, session_id, data) ==
    Put(sess, session_id,
        Put(Merge(GetOr(sess, session_id), data), "last_updated", clock))

Handled(st, statuses) ==
    [sessions |-> st.sessions, data_dir |-> st.data_dir,
     notices |-> st.notices, statuses |-> statuses]

\* The body of the try of do_POST on /capture, lines 110-120: a body that is
\* no object has no get; requests that are no list cannot be iterated; an
\* exception of _process_captured_requests leaves process_browser_data
PostCapture(st, v) ==
    LET requests == Get(v.fields, "requests", JList(<<>>))
        done == AfterRequests([sessions |-> st.sessions,
                               data_dir |-> st.data_dir,
                               raised |-> FALSE], requests.items)
    IN IF v.t # "object" \/ requests.t # "list" THEN Handled(st, <<500>>)
       ELSE IF requests.items = <<>> THEN Handled(st, <<200>>)
       ELSE IF done.raised
       THEN [sessions |-> done.sessions, data_dir |-> done.data_dir,
             notices |-> st.notices, statuses |-> <<500>>]
       ELSE [sessions |-> done.sessions, data_dir |-> done.data_dir,
             notices |-> Append(st.notices, Notice(Len(requests.items))),
             statuses |-> <<200>>]

\* The body of the try of do_POST on /session, lines 122-132: a session id
\* that is a list cannot be looked up in the dict
PostSession(st, v) ==
    LET session_id == Get(v.fields, "session_id", JStr(<<>>))
    IN IF v.t # "object" THEN Handled(st, <<500>>)
       ELSE IF session_id.t = "list"
       THEN Handled(st, IF session_id.items = <<>> THEN <<200>> ELSE <<500>>)
       ELSE IF session_id.s = <<>> THEN Handled(st, <<200>>)
       ELSE [sessions |-> AfterUpdateSession(st.sessions, session_id.s, v.fields),
             data_dir |-> st.data_dir, notices |-> st.notices,
             statuses |-> <<200>>]

\* The body of the try of do_POST on /captcha, lines 134-143: solve_captcha
\* calls get on what the captcha field holds
PostCaptcha(st, v) ==
    LET captcha_data == Get(v.fields, "captcha", None)
        solved == BridgeSolveCaptcha(captcha_data.d, st.data_dir)
    IN IF v.t # "object" \/ captcha_data.kind # "dict" THEN Handled(st, <<500>>)
       ELSE [sessions |-> st.sessions, data_dir |-> solved.files,
             notices |-> st.notices, statuses |-> <<200>>]

\* BridgeHandler.do_POST: the status lines sent and the bridge after it.  A
\* Content-Length that is no number raises ValueError before the try, and no
\* status line is sent; without the header nothing is read, and json.loads
\* of '' raises.
Posted(st, path, content_length, body) ==
    LET p == UrlPath(path)
    IN IF content_length = "text" THEN Handled(st, <<>>)
       ELSE IF content_length = "absent" \/ body.kind # "json"
       THEN Handled(st, <<500>>)
       ELSE IF p = <<"/", "c", "a", "p", "t", "u", "r", "e">> THEN PostCapture(st, body.v)
       ELSE IF p = <<"/", "s", "e", "s", "s", "i", "o", "n">> THEN PostSession(st, body.v)
       ELSE IF p = <<"/", "c", "a", "p", "t", "c", "h", "a">> THEN PostCaptcha(st, body.v)
       ELSE Handled(st, <<404>>)

DoPOST(path, content_length, body) ==
    LET after == Posted([sessions |-> sessions, data_dir |-> data_dir,
                         notices |-> browser_to_desktop],
                        path, content_length, body)
    IN
    /\ Len(after.notices) <= MaxQueue
    /\ sessions' = after.sessions
    /\ data_dir' = after.data_dir
    /\ browser_to_desktop' = after.notices
    /\ lastOp' = [op |-> "do_POST", path |-> path,
                  content_length |-> content_length, body |-> body,
                  statuses |-> after.statuses]
    /\ UNCHANGED <<sessVars, thrVars, request, capVars, apiVars, autoVars,
                   testerVars, active_tools, desktop_to_browser, wsVars,
                   coreVars>>

GetPaths ==
    {<<"/", "s", "t", "a", "t", "u", "s">>, <<"/", "s", "t", "a", "t", "u", "s", "?", "x", "=", "1">>, <<"/", "d", "a", "t", "a">>, <<"/", "l", "a", "u", "n", "c", "h", "/", "a", "p", "i", "_", "t", "e", "s", "t", "e", "r">>, <<"/", "l", "a", "u", "n", "c", "h", "/", "z", "z">>,
     <<"/", "l", "a", "u", "n", "c", "h">>, <<"/", "c", "a", "p", "t", "u", "r", "e">>, <<"/">>}

PostPaths == {<<"/", "c", "a", "p", "t", "u", "r", "e">>, <<"/", "s", "e", "s", "s", "i", "o", "n">>, <<"/", "c", "a", "p", "t", "c", "h", "a">>, <<"/", "s", "t", "a", "t", "u", "s">>, <<"/", "o", "t", "h", "e", "r">>}

PostBodies ==
    {Garbage, JsonBody(JArr), JsonBody(JObj(<<>>)),
     JsonBody(JObj([requests |-> JList(<<PlainRequest>>)])),
     JsonBody(JObj([requests |-> JList(<<FormRequest, PlainRequest>>)])),
     JsonBody(JObj([requests |-> JNum])),
     JsonBody(JObj([session_id |-> JStr(<<"a">>)])),
     JsonBody(JObj([session_id |-> JList(<<JNum>>)])),
     JsonBody(JObj([captcha |-> CaptchaDict([type |-> "math",
                                              question |-> <<"W", "h", "a", "t", " ", "i", "s", " ", "2", " ", "+", " ", "3">>])])),
     JsonBody(JObj([captcha |-> StrVal(<<"x">>)]))}

ContentLengths == {"length", "absent", "text"}

NextHttp ==
    \/ \E path \in GetPaths : DoGET(path)
    \/ \E path \in PostPaths, content_length \in ContentLengths,
          body \in PostBodies : DoPOST(path, content_length, body)

SpecHttp == Init /\ [][NextHttp]_vars


----------------------------------------------------------------------------
(* The automation controller: tools are launched, stopped and monitored *)

ToolInfo(pid, auto_restart) ==
    [kind |-> "info", pid |-> pid, started |-> now, auto_restart |-> auto_restart]

\* The tools launch_tool has a script for that runs as a process of its own
GuiTools == {"api_tester", "sms_panel"}

\* subprocess.Popen: the new process, and whether a thread of the controller
\* waits for its exit
Spawned(procs, tool_name, watched) ==
    Append(procs, [alive |-> TRUE, tool |-> tool_name, watched |-> watched])

\* AutomationController.launch_tool(tool_name, auto_restart): running_tools
\* and the processes after it.  found tells whether the script exists,
\* spawned whether the process could be started.  A tool that has an entry
\* counts as running; the service tool is tracked by _run_tool_script, with
\* auto_restart set.
Launched(st, tool_name, auto_restart, found, spawned) ==
    IF st.running_tools[tool_name] # None THEN st
    ELSE IF tool_name = "session_manager" \/ ~found \/ ~spawned THEN st
    ELSE [running_tools |->
              [st.running_tools EXCEPT ![tool_name] =
                   ToolInfo(Len(st.processes) + 1,
                            IF tool_name \in GuiTools THEN auto_restart
                            ELSE TRUE)],
          processes |-> Spawned(st.processes, tool_name,
                                tool_name \notin GuiTools)]

ControllerState == [running_tools |-> running_tools, processes |-> processes]

LaunchTool(tool_name, auto_restart) ==
    \E found \in BOOLEAN, spawned \in BOOLEAN :
        LET after == Launched(ControllerState, tool_name, auto_restart,
                              found, spawned)
        IN
        /\ Len(after.processes) <= MaxProcesses
        /\ running_tools' = after.running_tools
        /\ processes' = after.processes
        /\ lastOp' = [op |-> "launch_tool", tool |-> tool_name]
        /\ UNCHANGED <<sessVars, thrVars, brVars, capVars, apiVars, httpVars,
                       controller_browser, runners,
                       testerVars, bridgeVars, wsVars, coreVars>>

\* AutomationController.stop_tool(tool_name)
StopTool(tool_name) ==
    /\ IF running_tools[tool_name] # None
       THEN /\ processes' = [processes EXCEPT
                                ![running_tools[tool_name].pid].alive = FALSE]
            /\ running_tools' = [running_tools EXCEPT ![tool_name] = None]
       ELSE UNCHANGED <<running_tools, processes>>
    /\ lastOp' = [op |-> "stop_tool", tool |-> tool_name]
    /\ UNCHANGED <<sessVars, thrVars, brVars, capVars, apiVars, httpVars,
                   controller_browser, runners,
                       testerVars, bridgeVars, wsVars, coreVars>>

\* A process exits by itself
ProcessExits(pid) ==
    /\ pid \in DOMAIN processes
    /\ processes[pid].alive
    /\ processes' = [processes EXCEPT ![pid].alive = FALSE]
    /\ lastOp' = [op |-> "process_exits", pid |-> pid]
    /\ UNCHANGED <<sessVars, thrVars, brVars, capVars, apiVars, httpVars,
                   running_tools, controller_browser, runners,
                       testerVars, bridgeVars,
                   wsVars, coreVars>>

\* _run_tool_script, lines 170-176: the thread that waits for the service
\* tool sees it exit and clears the entry of the tool
RunToolScriptEnds(pid) ==
    /\ pid \in DOMAIN processes
    /\ processes[pid].watched
    /\ ~processes[pid].alive
    /\ processes' = [processes EXCEPT ![pid].watched = FALSE]
    /\ running_tools' = [running_tools EXCEPT !["socket_bridge"] = None]
    /\ lastOp' = [op |-> "run_tool_script_ends", pid |-> pid]
    /\ UNCHANGED <<sessVars, thrVars, brVars, capVars, apiVars, httpVars,
                   controller_browser, runners,
                       testerVars, bridgeVars, wsVars, coreVars>>

\* The order of the keys of running_tools
ToolOrder == <<"api_tester", "sms_panel", "socket_bridge", "session_manager">>

Stopped(st, tool_info) == ~st.processes[tool_info.pid].alive

\* One turn of the loop of _monitor_tools, lines 339-351, for the entry
\* tool_info the pass has read for tool_name
Monitored(st, tool_name, tool_info, found, spawned) ==
    IF tool_info # None /\ Stopped(st, tool_info)
    THEN LET relaunched == IF tool_info.auto_restart
                           THEN Launched(st, tool_name, TRUE, found, spawned)
                           ELSE st
         IN [relaunched EXCEPT !.running_tools[tool_name] = None]
    ELSE st

\* The loop of _monitor_tools over list(self.running_tools.items())
RECURSIVE MonitoredAll(_, _, _, _, _)
MonitoredAll(st, items, tools, found, spawned) ==
    IF tools = <<>> THEN st
    ELSE MonitoredAll(Monitored(st, Head(tools), items[Head(tools)],
                                found, spawned),
                      items, Tail(tools), found, spawned)

\* timedelta.seconds of a difference of d seconds: the seconds within the
\* day, the whole days being kept apart in timedelta.days
DeltaSeconds(d) == d % SecondsPerDay

\* One pass of _monitor_tools, lines 337-357: the tools, then the browser
MonitorTools ==
    \E found \in BOOLEAN, spawned \in BOOLEAN :
        LET after == MonitoredAll(ControllerState, running_tools, ToolOrder,
                                  found, spawned)
            b == controller_browser
        IN
        /\ Len(after.processes) <= MaxProcesses
        /\ running_tools' = after.running_tools
        /\ processes' = after.processes
        /\ controller_browser' =
               IF b.connected /\ b.active
                      /\ DeltaSeconds(now - b.last) > BrowserTimeout
               THEN [b EXCEPT !.connected = FALSE]
               ELSE b
        /\ lastOp' = [op |-> "monitor_tools", found |-> found,
                      spawned |-> spawned]
        /\ UNCHANGED <<sessVars, thrVars, brVars, capVars, apiVars, httpVars,
                       runners, testerVars, bridgeVars, wsVars, coreVars>>

\* launch_all_tools, lines 202-219
RECURSIVE LaunchedAll(_, _, _, _)
LaunchedAll(st, tools, found, spawned) ==
    IF tools = <<>> THEN st
    ELSE LaunchedAll(Launched(st, Head(tools), TRUE, found, spawned),
                     Tail(tools), found, spawned)

\* AutomationController.on_browser_connected, with the tools launched
OnBrowserConnected ==
    \E found \in BOOLEAN, spawned \in BOOLEAN :
        LET after == LaunchedAll(ControllerState,
                                 <<"socket_bridge", "api_tester", "sms_panel">>,
                                 found, spawned)
        IN
        /\ Len(after.processes) <= MaxProcesses
        /\ running_tools' = after.running_tools
        /\ processes' = after.processes
        /\ controller_browser' = [connected |-> TRUE, active |-> TRUE,
                                  last |-> now]
        /\ lastOp' = [op |-> "on_browser_connected"]
        /\ UNCHANGED <<sessVars, thrVars, brVars, capVars, apiVars, httpVars,
                       runners, testerVars, bridgeVars, wsVars, coreVars>>

\* The instants of the monitor runs: the start, at and just after the
\* browser timeout, and a day and half the timeout after the start
MonitorSeconds ==
    {0, BrowserTimeout, BrowserTimeout + 1,
     SecondsPerDay + (BrowserTimeout \div 2)}

NextMonitor ==
    \/ \E tool \in ControllerTools, auto_restart \in BOOLEAN :
           LaunchTool(tool, auto_restart)
    \/ \E tool \in ControllerTools : StopTool(tool)
    \/ \E pid \in 1..MaxProcesses : ProcessExits(pid)
    \/ \E pid \in 1..MaxProcesses : RunToolScriptEnds(pid)
    \/ MonitorTools
    \/ OnBrowserConnected
    \/ TickSeconds(MonitorSeconds)

SpecMonitor == Init /\ [][NextMonitor]_vars


----------------------------------------------------------------------------
(* The API tester: a request is sent on a thread of its own, and the UI     *)
(* thread runs the calls the threads have queued                            *)

\* The texts json.loads accepts, among those entered
JsonTexts == {<<"{", "}">>, <<"[", "1", "]">>}

\* The headers send_request passes on: the Content-Type of the active body
\* tab is set when the tab holds a body
RequestHeaders(tab, body) ==
    IF body.kind = "form"
    THEN IF tab = 1 /\ body.d # <<>>
         THEN [k \in {"Content-Type"} |-> "application/x-www-form-urlencoded"]
         ELSE <<>>
    ELSE IF Strip(body.s) = <<>> THEN <<>>
    ELSE IF tab = 0 THEN [k \in {"Content-Type"} |-> "application/json"]
    ELSE [k \in {"Content-Type"} |-> "text/plain"]

\* send_request, lines 541-569: no request is sent without a URL, nor with a
\* JSON body that does not parse
Refused(url, tab, body) ==
    \/ Strip(url) = <<>>
    \/ tab = 0 /\ Strip(body.s) # <<>> /\ body.s \notin JsonTexts

\* The arguments thread.start() hands to _send_request_thread, line 579-584:
\* method, url, headers, params and body.  start_time stays a local of
\* send_request.
Worker(method, url, tab, body) ==
    [pc |-> "request",
     locals |-> [method |-> method,
                 url |-> Strip(url),
                 headers |-> RequestHeaders(tab, body),
                 params |-> <<>>,
                 body |-> IF body.kind = "form" /\ body.d = <<>> THEN None
                          ELSE body]]

\* APITester.send_request with what the widgets hold
SendRequest(method, url, tab, body) ==
    /\ body.kind = "form" <=> tab = 1
    /\ IF Refused(url, tab, body)
       THEN UNCHANGED workers
       ELSE /\ Len(workers) < MaxWorkers
            /\ workers' = Append(workers, Worker(method, url, tab, body))
    /\ lastOp' = [op |-> "send_request", sent |-> ~Refused(url, tab, body)]
    /\ UNCHANGED <<sessVars, thrVars, brVars, capVars, apiVars, httpVars,
                   autoVars, ui_queue, history, response_editor, bridgeVars,
                   wsVars, coreVars>>

\* Whether a name read in _send_request_thread is bound there
NameBound(locals, name) == name \in DOMAIN locals

\* What _send_request_thread queues for the UI thread, lines 589-618, when
\* requests.request has returned outcome: computing elapsed reads start_time,
\* and a name that is not bound raises NameError inside the try
Queued(locals, outcome) ==
    IF outcome.kind = "response" /\ NameBound(locals, "start_time")
    THEN [call |-> "_update_response_ui", response |-> outcome,
          request |-> locals]
    ELSE IF outcome.kind = "response"
    THEN [call |-> "_show_error", error |-> "NameError"]
    ELSE [call |-> "_show_error", error |-> outcome.error]

Outcomes ==
    {[kind |-> "response", status_code |-> 200],
     [kind |-> "response", status_code |-> 404],
     [kind |-> "raised", error |-> "ConnectionError"]}

\* APITester._send_request_thread of the thread w
SendRequestThread(w) ==
    /\ w \in DOMAIN workers
    /\ workers[w].pc = "request"
    /\ \E outcome \in Outcomes :
           /\ ui_queue' = Append(ui_queue, Queued(workers[w].locals, outcome))
           /\ lastOp' = [op |-> "send_request_thread", worker |-> w,
                         outcome |-> outcome]
    /\ workers' = [workers EXCEPT ![w].pc = "done"]
    /\ UNCHANGED <<sessVars, thrVars, brVars, capVars, apiVars, httpVars,
                   autoVars, history, response_editor, bridgeVars, wsVars,
                   coreVars>>

\* The entry _update_response_ui appends to the history, lines 644-651
HistoryEntry(queued) ==
    [timestamp |-> clock,
     method |-> queued.request.method,
     url |-> queued.request.url,
     status |-> queued.response.status_code]

\* The UI thread runs the oldest queued call: _update_response_ui, lines
\* 620-655, or _show_error, lines 657-660
RunQueued ==
    /\ ui_queue # <<>>
    /\ LET queued == Head(ui_queue)
       IN IF queued.call = "_update_response_ui"
          THEN /\ response_editor' = [kind |-> "response",
                                      status_code |-> queued.response.status_code]
               /\ history' = Append(history, HistoryEntry(queued))
          ELSE /\ response_editor' = [kind |-> "error", error |-> queued.error]
               /\ UNCHANGED history
    /\ ui_queue' = Tail(ui_queue)
    /\ lastOp' = [op |-> "run_queued", call |-> Head(ui_queue).call]
    /\ UNCHANGED <<sessVars, thrVars, brVars, capVars, apiVars, httpVars,
                   autoVars, workers, bridgeVars, wsVars, coreVars>>

TesterUrls == {<<>>, <<" ">>, <<"h", ":", "/", "/", "a">>, <<" ", "h", ":", "/", "/", "b", " ">>}

TesterBodies ==
    {[kind |-> "text", s |-> <<>>], [kind |-> "text", s |-> <<"{", "}">>],
     [kind |-> "text", s |-> <<"{">>],
     [kind |-> "form", d |-> <<>>], [kind |-> "form", d |-> [k \in {"a"} |-> "1"]]}

NextTester ==
    \/ \E method \in {"GET", "POST"}, url \in TesterUrls, tab \in 0..2,
          body \in TesterBodies : SendRequest(method, url, tab, body)
    \/ \E w \in 1..MaxWorkers : SendRequestThread(w)
    \/ RunQueued

SpecTester == Init /\ [][NextTester]_vars


----------------------------------------------------------------------------
(* launch_tool called from several threads, and the threads that run the   *)
(* service tool, one statement at a time                                   *)

\* What a step of a caller of launch_tool leaves alone, besides the tools
restOfLaunch ==
    <<sessVars, session_lock, brVars, capVars, apiVars, httpVars,
      controller_browser, testerVars, coreVars, bridgeVars, wsVars>>

\* launch_tool, lines 102-116 and 131-138: the entry of the tool is read; a
\* tool that has one counts as running.  A service tool gets a thread that
\* will start it.
LaunchCheck(t, tool_name, auto_restart) ==
    /\ At(t, "idle")
    /\ \E found \in BOOLEAN :
           IF running_tools[tool_name] # None \/ tool_name = "session_manager"
                  \/ ~found
           THEN /\ Goto(t, Idle)
                /\ UNCHANGED runners
                /\ lastOp' = [op |-> "launch_tool", thread |-> t,
                              tool |-> tool_name,
                              ret |-> (running_tools[tool_name] # None
                                           \/ tool_name = "session_manager")]
           ELSE IF tool_name \in GuiTools
           THEN /\ Goto(t, [pc |-> "lt_popen", tool |-> tool_name,
                            auto_restart |-> auto_restart])
                /\ UNCHANGED runners
                /\ lastOp' = [op |-> "launch_check", thread |-> t,
                              tool |-> tool_name]
           ELSE /\ Len(runners) < MaxProcesses
                /\ runners' = Append(runners, [pc |-> "popen",
                                               tool |-> tool_name, pid |-> 0])
                /\ Goto(t, Idle)
                /\ lastOp' = [op |-> "launch_tool", thread |-> t,
                              tool |-> tool_name, ret |-> TRUE]
    /\ UNCHANGED <<running_tools, processes, restOfLaunch>>

\* launch_tool, line 122: subprocess.Popen starts the process, or raises
LaunchPopen(t) ==
    /\ At(t, "lt_popen")
    /\ \/ /\ Len(processes) < MaxProcesses
          /\ processes' = Spawned(processes, threads[t].tool, FALSE)
          /\ Goto(t, [pc |-> "lt_assign", tool |-> threads[t].tool,
                      auto_restart |-> threads[t].auto_restart,
                      pid |-> Len(processes) + 1])
          /\ lastOp' = [op |-> "launch_popen", thread |-> t]
       \/ /\ UNCHANGED processes
          /\ Goto(t, Idle)
          /\ lastOp' = [op |-> "launch_tool", thread |-> t,
                        tool |-> threads[t].tool, ret |-> FALSE]
    /\ UNCHANGED <<running_tools, runners, restOfLaunch>>

\* launch_tool, lines 123-128 and 138-139
LaunchAssign(t) ==
    /\ At(t, "lt_assign")
    /\ running_tools' = [running_tools EXCEPT ![threads[t].tool] =
                             ToolInfo(threads[t].pid, threads[t].auto_restart)]
    /\ Goto(t, Idle)
    /\ lastOp' = [op |-> "launch_tool", thread |-> t,
                  tool |-> threads[t].tool, ret |-> TRUE]
    /\ UNCHANGED <<processes, runners, restOfLaunch>>

RunnerAt(r, pc) == r \in DOMAIN runners /\ runners[r].pc = pc

\* _run_tool_script, lines 151-156: the thread starts the process, or Popen
\* raises and the finally clause clears the entry of the tool
RunnerPopen(r) ==
    /\ RunnerAt(r, "popen")
    /\ \/ /\ Len(processes) < MaxProcesses
          /\ processes' = Spawned(processes, runners[r].tool, FALSE)
          /\ runners' = [runners EXCEPT ![r].pc = "assign",
                                        ![r].pid = Len(processes) + 1]
          /\ UNCHANGED running_tools
       \/ /\ UNCHANGED processes
          /\ runners' = [runners EXCEPT ![r].pc = "done"]
          /\ running_tools' = [running_tools EXCEPT ![runners[r].tool] = None]
    /\ lastOp' = [op |-> "runner_popen", runner |-> r]
    /\ UNCHANGED <<threads, restOfLaunch>>

\* _run_tool_script, lines 158-163
RunnerAssign(r) ==
    /\ RunnerAt(r, "assign")
    /\ running_tools' = [running_tools EXCEPT ![runners[r].tool] =
                             ToolInfo(runners[r].pid, TRUE)]
    /\ runners' = [runners EXCEPT ![r].pc = "wait"]
    /\ lastOp' = [op |-> "runner_assign", runner |-> r]
    /\ UNCHANGED <<processes, threads, restOfLaunch>>

\* _run_tool_script, lines 165-176: the output ends and wait returns when the
\* process has exited; the finally clause clears the entry of the tool
RunnerFinally(r) ==
    /\ RunnerAt(r, "wait")
    /\ ~processes[runners[r].pid].alive
    /\ running_tools' = [running_tools EXCEPT ![runners[r].tool] = None]
    /\ runners' = [runners EXCEPT ![r].pc = "done"]
    /\ lastOp' = [op |-> "runner_finally", runner |-> r]
    /\ UNCHANGED <<processes, threads, restOfLaunch>>

NextLaunch ==
    \/ \E t \in Threads, tool \in ControllerTools, auto_restart \in BOOLEAN :
           LaunchCheck(t, tool, auto_restart)
    \/ \E t \in Threads : LaunchPopen(t) \/ LaunchAssign(t)
    \/ \E r \in 1..MaxProcesses :
           RunnerPopen(r) \/ RunnerAssign(r) \/ RunnerFinally(r)
    \/ \E pid \in 1..MaxProcesses : ProcessExits(pid)
    \/ \E tool \in ControllerTools : StopTool(tool)
    \/ MonitorTools

SpecLaunch == Init /\ [][NextLaunch]_vars


----------------------------------------------------------------------------
(* The controller as the data of the browser arrive                        *)

\* cache_key and cache_key in self.captcha_cache and
\* time.time() - cached['timestamp'] < 300, of the cache of one manager
FreshIn(cache, key) ==
    /\ key # None
    /\ key \in DOMAIN cache
    /\ now - cache[key].timestamp < CacheTTL

\* _solve_captcha(captcha_data): a SessionManager is constructed, with the
\* cache it starts with, and asked for the solution
ControllerSolveCaptcha(captcha_data) ==
    LET session_mgr == [captcha_cache |-> <<>>]
        cache_key == CacheKey(captcha_data)
        cached == FreshIn(session_mgr.captcha_cache, cache_key)
        solved == Solve(captcha_data, TRUE)
        store == ~cached /\ Truthy(solved.solution) /\ cache_key # None
    IN [cached |-> cached,
        solution |-> IF cached
                     THEN session_mgr.captcha_cache[cache_key].solution
                     ELSE solved.solution,
        captcha_dir |-> IF ~cached /\ solved.saved
                        THEN Put(captcha_dir, solved.filepath, solved.bytes)
                        ELSE captcha_dir,
        captcha_solutions |->
            IF store
            THEN Put(captcha_solutions, CaptchaId(captcha_data),
                     SolutionRow(captcha_data, solved))
            ELSE captcha_solutions]

\* on_browser_data(data), of data that hold no requests
OnBrowserData(data, auto_captcha) ==
    LET captcha_data == Get(data, "captcha", <<>>)
        solving == DOMAIN captcha_data # {} /\ auto_captcha
        after == ControllerSolveCaptcha(captcha_data)
    IN
    /\ calls < MaxCalls
    /\ calls' = calls + 1
    /\ controller_browser' = [controller_browser EXCEPT !.active = TRUE,
                                                        !.last = now]
    /\ IF solving
       THEN /\ captcha_dir' = after.captcha_dir
            /\ captcha_solutions' = after.captcha_solutions
            /\ lastOp' = [op |-> "on_browser_data", solving |-> TRUE,
                          captcha_data |-> captcha_data,
                          cached |-> after.cached,
                          solution |-> after.solution]
       ELSE /\ UNCHANGED <<captcha_dir, captcha_solutions>>
            /\ lastOp' = [op |-> "on_browser_data", solving |-> FALSE]
    /\ UNCHANGED <<sessVars, thrVars, brVars, captcha_cache, now, apiVars,
                   httpVars, running_tools, processes, runners, testerVars,
                   coreVars, bridgeVars, wsVars>>

\* The data of the runs about the browser's CAPTCHAs
BrowserData == {<<>>} \cup {[captcha |-> d] : d \in CaptchaRequests}

NextBrowserData ==
    \/ \E data \in BrowserData, auto_captcha \in BOOLEAN :
           OnBrowserData(data, auto_captcha)
    \/ TickSeconds(Seconds)

SpecBrowserData == Init /\ [][NextBrowserData]_vars


----------------------------------------------------------------------------
(* The core manager: the services, the thread that watches each of them,   *)
(* and stop_service one statement at a time                                *)

\* What the core manager leaves alone, besides the threads of its callers
restOfCore ==
    <<sessVars, session_lock, brVars, capVars, apiVars, httpVars, autoVars,
      testerVars, bridgeVars, wsVars>>

\* service_name in self.services
Tracked(service_name) == services[service_name] # None

\* start_service(service_name, command)
StartService(service_name) ==
    /\ IF Tracked(service_name)
       THEN /\ UNCHANGED coreVars
            /\ lastOp' = [op |-> "start_service", name |-> service_name,
                          ret |-> FALSE]
       ELSE \/ /\ Len(service_processes) < MaxProcesses
               /\ service_processes' =
                      Append(service_processes, [alive |-> TRUE])
               /\ services' =
                      [services EXCEPT ![service_name] =
                           [process |-> Len(service_processes) + 1]]
               /\ monitors' =
                      Append(monitors,
                             [pc |-> "communicate",
                              service_name |-> service_name,
                              process |-> Len(service_processes) + 1])
               /\ lastOp' = [op |-> "start_service", name |-> service_name,
                             ret |-> TRUE]
            \/ /\ UNCHANGED coreVars
               /\ lastOp' = [op |-> "start_service", name |-> service_name,
                             ret |-> FALSE]
    /\ UNCHANGED <<threads, restOfCore>>

\* The process of a service exits by itself
ServiceExits(pid) ==
    /\ pid \in DOMAIN service_processes
    /\ service_processes[pid].alive
    /\ service_processes' = [service_processes EXCEPT ![pid].alive = FALSE]
    /\ lastOp' = [op |-> "service_exits", pid |-> pid]
    /\ UNCHANGED <<services, monitors, threads, restOfCore>>

\* _monitor_service, lines 144-153: communicate returns when the process has
\* exited, and the entry of the name, if there is one, is removed
MonitorService(m) ==
    /\ m \in DOMAIN monitors
    /\ monitors[m].pc = "communicate"
    /\ ~service_processes[monitors[m].process].alive
    /\ services' = [services EXCEPT ![monitors[m].service_name] = None]
    /\ monitors' = [monitors EXCEPT ![m].pc = "done"]
    /\ lastOp' = [op |-> "monitor_service", monitor |-> m]
    /\ UNCHANGED <<service_processes, threads, restOfCore>>

\* stop_service, lines 157-163: an untracked name is refused; the process of
\* a tracked one is sent SIGTERM, which ends it now, later or not at all
StopServiceTerminate(t, service_name) ==
    /\ At(t, "idle")
    /\ IF ~Tracked(service_name)
       THEN /\ Goto(t, Idle)
            /\ UNCHANGED service_processes
            /\ lastOp' = [op |-> "stop_service", thread |-> t,
                          name |-> service_name, tracked |-> FALSE,
                          ret |-> FALSE]
       ELSE LET pid == services[service_name].process IN
            /\ Goto(t, [pc |-> "ss_sleep", service_name |-> service_name,
                        process |-> pid])
            /\ \E ends \in BOOLEAN :
                   service_processes' =
                       [service_processes EXCEPT
                            ![pid].alive = service_processes[pid].alive /\ ~ends]
            /\ lastOp' = [op |-> "terminate", thread |-> t,
                          name |-> service_name]
    /\ UNCHANGED <<services, monitors, restOfCore>>

\* stop_service, lines 165-174: after the second the process is killed if it
\* still runs, and the entry is deleted: KeyError, caught, when it has gone
StopServiceDelete(t) ==
    /\ At(t, "ss_sleep")
    /\ LET service_name == threads[t].service_name IN
       /\ service_processes' =
              [service_processes EXCEPT ![threads[t].process].alive = FALSE]
       /\ services' = [services EXCEPT ![service_name] = None]
       /\ lastOp' = [op |-> "stop_service", thread |-> t,
                     name |-> service_name, tracked |-> TRUE,
                     process |-> threads[t].process,
                     ret |-> Tracked(service_name)]
    /\ Goto(t, Idle)
    /\ UNCHANGED <<monitors, restOfCore>>

NextCore ==
    \/ \E name \in ServiceNames : StartService(name)
    \/ \E pid \in 1..MaxProcesses : ServiceExits(pid)
    \/ \E m \in 1..MaxProcesses : MonitorService(m)
    \/ \E t \in Threads, name \in ServiceNames : StopServiceTerminate(t, name)
    \/ \E t \in Threads : StopServiceDelete(t)

SpecCore == Init /\ [][NextCore]_vars

----------------------------------------------------------------------------
(* Claims *)

ActiveRows(domain) ==
    {sid \in DOMAIN db : db[sid].domain = domain /\ db[sid].is_active = 1}

\* C1: a pass of the background sweep reports exactly the active sessions
\* whose expires_at is less than one hour ahead and changes no row, no
\* is_active flag and nothing in the cache; get_session_for_domain still
\* returns an active session whose expires_at has passed (the one used last).
C1_SweepOnlyReports ==
    [][/\ lastOp'.op = "sweep" =>
            /\ db' = db
            /\ active_sessions' = active_sessions
            /\ lastOp'.reported =
                  {sid \in DOMAIN db : /\ db[sid].is_active = 1
                                       /\ db[sid].expires_at - clock < SweepHorizon}
       /\ lastOp'.op = "get_session_for_domain" =>
            \A sid \in ActiveRows(lastOp'.domain) :
                db[sid].expires_at < clock =>
                    /\ lastOp'.found
                    /\ lastOp'.ret.id \in ActiveRows(lastOp'.domain)
                    /\ db[lastOp'.ret.id].last_used >= db[sid].last_used
                    /\ active_sessions'[lastOp'.ret.id] = lastOp'.ret
      ]_vars

\* C1 witness: a pass has reported a session whose expiry has passed; it is
\* still active and is the session of its domain used last.
C1_Witness ==
    /\ lastOp.op = "sweep"
    /\ \E sid \in lastOp.reported :
          /\ db[sid].expires_at < clock
          /\ db[sid].is_active = 1
          /\ sid \in LatestActive(db[sid].domain)

StoredKeys == {"cookies", "tokens", "is_active", "last_used"}

\* What update_session must leave in the cache and in the row, for the keys
\* in written, and what it must leave alone
UpdateWrites(written) ==
    lastOp'.op = "update_session" =>
        LET sid == lastOp'.sid
            u == lastOp'.updates
        IN IF sid \in DOMAIN db
           THEN /\ lastOp'.ret = TRUE
                /\ sid \in DOMAIN active_sessions'
                /\ \A k \in DOMAIN u \cap written :
                      /\ active_sessions'[sid][k] = u[k]
                      /\ db'[sid][k] = StoredValue(k, u[k])
                /\ \A k \in StoredKeys \ (DOMAIN u \cup {"last_used"}) :
                      /\ db'[sid][k] = db[sid][k]
                      /\ sid \in DOMAIN active_sessions =>
                            active_sessions'[sid][k] = active_sessions[sid][k]
                /\ \A o \in DOMAIN db \ {sid} :
                      /\ db'[o] = db[o]
                      /\ o \in DOMAIN active_sessions =>
                            active_sessions'[o] = active_sessions[o]
           ELSE /\ lastOp'.ret = FALSE
                /\ db' = db
                /\ active_sessions' = active_sessions

GetReturnsCached ==
    lastOp'.op = "get_session" /\ lastOp'.sid \in DOMAIN active_sessions =>
        lastOp'.ret = active_sessions[lastOp'.sid]

\* C2 as stated: after update_session(id, updates) returns True the cached
\* session and the stored row hold the update's value for every key in
\* updates; on an unknown id it returns False and changes nothing.
C2_LastWriteWins ==
    [][UpdateWrites(StoredKeys) /\ GetReturnsCached]_vars

\* C2 amended: the same for every key in updates other than last_used, which
\* update_session always overwrites with the time of the call.
C2_LastWriteWinsButLastUsed ==
    [][/\ UpdateWrites(StoredKeys \ {"last_used"})
       /\ GetReturnsCached
       /\ lastOp'.op = "update_session" /\ lastOp'.ret = TRUE =>
             /\ active_sessions'[lastOp'.sid].last_used = clock
             /\ db'[lastOp'.sid].last_used = clock
      ]_vars

\* C2 witness: an update of cookies and last_used has returned True, later
\* than the last_used it asked for, and the cache holds its cookies.
C2_Witness ==
    /\ lastOp.op = "update_session"
    /\ lastOp.ret = TRUE
    /\ DOMAIN lastOp.updates = {"cookies", "last_used"}
    /\ lastOp.updates.last_used < clock
    /\ active_sessions[lastOp.sid].cookies = lastOp.updates.cookies
    /\ db[lastOp.sid].cookies = JsonText(lastOp.updates.cookies.m)

\* C3: every write to active_sessions is made by a thread that holds
\* session_lock.
C3_WritesHoldLock ==
    [][active_sessions' # active_sessions /\ lastOp'.op = "step" =>
          /\ session_lock = lastOp'.thread
          /\ session_lock' = lastOp'.thread]_vars


\* The keywords the claims name
FourKeywords == {K_session, K_token, K_auth, K_jwt}

RowCookies(table, sid) ==
    IF sid \in DOMAIN table THEN table[sid].cookies.m ELSE NoKeys
RowTokens(table, sid) ==
    IF sid \in DOMAIN table THEN table[sid].tokens.m ELSE NoKeys
BridgeField(sess, domain, field) ==
    IF domain \in DOMAIN sess THEN GetOr(sess[domain], field) ELSE NoKeys

Written(old, new) == {k \in DOMAIN new : k \notin DOMAIN old \/ new[k] # old[k]}

\* C4: whichever extractor runs, a cookie it adds to a session (or whose
\* value it replaces) has a key whose lower-cased form contains session,
\* token, auth or jwt.
C4_OnlyFourKeywords ==
    [][/\ \A sid \in DOMAIN db' :
            \A k \in Written(RowCookies(db, sid), RowCookies(db', sid)) :
                Matches(k, FourKeywords)
       /\ \A d \in DOMAIN sessions' :
            \A k \in Written(BridgeField(sessions, d, "cookies"),
                              BridgeField(sessions', d, "cookies")) :
                Matches(k, FourKeywords)
      ]_vars

\* The top-level fields of a body that parses as a JSON object whose key
\* contains a keyword and whose value is a string longer than 10
Expected(req, keywords) ==
    IF req.body.kind = "json" /\ req.body.v.t = "object"
    THEN LET f == req.body.v.fields
             keys == {k \in DOMAIN f :
                        /\ \E kw \in keywords : Contains(Lower(k), kw)
                        /\ f[k].t = "str"
                        /\ Len(f[k].s) > 10}
         IN [k \in keys |-> f[k].s]
    ELSE NoKeys

\* The session manager's part of C5: new_tokens holds exactly the expected
\* fields, and a request that contributes nothing raises nothing and leaves
\* the stored tokens alone
ManagerKeeps ==
    lastOp'.op = "extract_tokens_from_request" /\ lastOp'.found =>
        /\ lastOp'.new_tokens = Expected(request, TokenKeywords)
        /\ DOMAIN Expected(request, TokenKeywords) = {} =>
              /\ RowTokens(db', lastOp'.sid) = RowTokens(db, lastOp'.sid)
              /\ DOMAIN lastOp'.new_cookies = {} => ~lastOp'.raised

\* C5 as stated: the bridge too keeps exactly the expected fields: each is
\* stored under some domain after _extract_tokens, and no other token is
\* written.
C5_KeepsExactly ==
    [][/\ ManagerKeeps
       /\ lastOp'.op = "bridge_extract_tokens" =>
            LET want == Expected(request, BridgeTokenKeywords) IN
            /\ \A k \in DOMAIN want :
                  \E d \in DOMAIN sessions' :
                      /\ k \in DOMAIN BridgeField(sessions', d, "tokens")
                      /\ BridgeField(sessions', d, "tokens")[k] = want[k]
            /\ \A d \in DOMAIN sessions' :
                  \A k \in Written(BridgeField(sessions, d, "tokens"),
                                    BridgeField(sessions', d, "tokens")) :
                      k \in DOMAIN want /\ BridgeField(sessions', d, "tokens")[k] = want[k]
      ]_vars

\* C5 amended: the bridge keeps exactly the expected fields, under the
\* request's domain, when the request's url has a third part between
\* slashes; when it has not, the bridge keeps nothing.
C5_KeepsExactlyUnderDomain ==
    [][/\ ManagerKeeps
       /\ lastOp'.op = "bridge_extract_tokens" =>
            LET want == Expected(request, BridgeTokenKeywords)
                parts == Split(request.url, <<"/">>[1])
            IN IF Len(parts) >= 3
               THEN /\ BridgeField(sessions', parts[3], "tokens") =
                         Merge(BridgeField(sessions, parts[3], "tokens"), want)
                    /\ \A d \in DOMAIN sessions' \ {parts[3]} :
                          d \in DOMAIN sessions /\ sessions'[d] = sessions[d]
               ELSE sessions' = sessions
      ]_vars

\* C5 witness: the bridge has stored a token of the body under the request's
\* domain, and has stored nothing for a field of the same body whose key
\* contains a keyword and whose value has 10 characters.
C5_Witness ==
    /\ lastOp.op = "bridge_extract_tokens"
    /\ request.body.kind = "json"
    /\ request.body.v.t = "object"
    /\ \E d \in DOMAIN sessions, k1, k2 \in DOMAIN request.body.v.fields :
          /\ request.body.v.fields[k1] = JStr(Long)
          /\ k1 \in DOMAIN BridgeField(sessions, d, "tokens")
          /\ BridgeField(sessions, d, "tokens")[k1] = Long
          /\ request.body.v.fields[k2] = JStr(Short)
          /\ Contains(Lower(k2), K_auth)
          /\ k2 \notin DOMAIN BridgeField(sessions, d, "tokens")

\* The pairs extract_tokens_from_request is to keep from a Set-Cookie header
CookieList(req) == Split(SetCookieOf(req.headers), <<";">>[1])
KeptAt(req) ==
    {i \in 1..Len(CookieList(req)) :
        /\ HasChar(CookieList(req)[i], "=")
        /\ Matches(CookieKey(CookieList(req)[i]), FourKeywords)}
LastAt(req) ==
    {i \in KeptAt(req) :
        \A j \in KeptAt(req) :
            j > i => CookieKey(CookieList(req)[j]) # CookieKey(CookieList(req)[i])}

\* C6: after extract_tokens_from_request on an existing session, the stored
\* cookies hold, for every key kept from the header, the value seen last,
\* the stored tokens hold the kept fields of the body, and every cookie or
\* token stored before under another key is unchanged.
C6_LastOccurrenceWins ==
    [][lastOp'.op = "extract_tokens_from_request" /\ lastOp'.found =>
          LET sid == lastOp'.sid
              cookies == RowCookies(db', sid)
              tokens == RowTokens(db', sid)
              want == Expected(request, TokenKeywords)
          IN /\ \A i \in LastAt(request) :
                   LET k == CookieKey(CookieList(request)[i]) IN
                   /\ k \in DOMAIN cookies
                   /\ cookies[k] = CookieValue(CookieList(request)[i])
                   /\ active_sessions'[sid].cookies = DictVal(cookies)
             /\ \A k \in DOMAIN RowCookies(db, sid) :
                   (\A i \in KeptAt(request) : CookieKey(CookieList(request)[i]) # k)
                       => k \in DOMAIN cookies /\ cookies[k] = RowCookies(db, sid)[k]
             /\ \A k \in DOMAIN want :
                   k \in DOMAIN tokens /\ tokens[k] = want[k]
             /\ \A k \in DOMAIN RowTokens(db, sid) \ DOMAIN want :
                   k \in DOMAIN tokens /\ tokens[k] = RowTokens(db, sid)[k]
      ]_vars

\* The arguments of the call of solve_captcha just made
Asked == lastOp'.captcha_data

\* An entry for the key exists and is less than 300 s old
Young(key) ==
    /\ key # None
    /\ key \in DOMAIN captcha_cache
    /\ now - captcha_cache[key].timestamp < 300

\* The call returned the entry of the key and wrote nothing
Served(key) ==
    /\ key # None
    /\ key \in DOMAIN captcha_cache
    /\ lastOp'.ret = captcha_cache[key].solution
    /\ UNCHANGED <<captcha_cache, captcha_dir, captcha_solutions>>

\* C7: solve_captcha returns the cached solution, without recomputing, if
\* and only if an entry for the request's key exists and is less than 300 s
\* old; an entry of 300 s or more is not returned: the solution is computed
\* again, and cached with the present time if there is one.
C7_ServedWhileYoung ==
    [][lastOp'.op = "solve_captcha" =>
          LET key == CacheKey(Asked)
              again == Solve(Asked, lastOp'.auto_solve).solution
          IN /\ Served(key) <=> Young(key)
             /\ ~Young(key) =>
                  /\ lastOp'.ret = again
                  /\ Truthy(again) /\ key # None =>
                        captcha_cache'[key] =
                            [solution |-> again, timestamp |-> now]
      ]_vars

\* C7 witness: a solution cached at the start has been asked for again when
\* exactly 300 s old, and has been computed and stored a second time.
C7_Witness ==
    /\ lastOp.op = "solve_captcha"
    /\ now = 300
    /\ calls = 2
    /\ CacheKey(lastOp.captcha_data) \in DOMAIN captcha_cache
    /\ captcha_cache[CacheKey(lastOp.captcha_data)].timestamp = 300
    /\ CaptchaId(lastOp.captcha_data) \in DOMAIN captcha_solutions
    /\ captcha_solutions[CaptchaId(lastOp.captcha_data)].used_count = 2

\* C8: the entry solve_captcha looks up and writes is that of the digest of
\* the question when there is a question, else of the image; with neither,
\* the cache is not written and nothing is returned.  The entry is served
\* whatever the type of the request.
C8_KeyOfQuestionElseImage ==
    [][lastOp'.op = "solve_captcha" =>
          LET q == Question(Asked)
              img == ImageData(Asked)
              key == IF q # <<>> THEN Md5(q) ELSE Md5(img)
          IN IF q = <<>> /\ img = <<>>
             THEN captcha_cache' = captcha_cache /\ lastOp'.ret = None
             ELSE /\ \A k \in (DOMAIN captcha_cache \cup DOMAIN captcha_cache') \ {key} :
                        /\ k \in DOMAIN captcha_cache
                        /\ k \in DOMAIN captcha_cache'
                        /\ captcha_cache'[k] = captcha_cache[k]
                  /\ Young(key) => lastOp'.ret = captcha_cache[key].solution
                  /\ Truthy(lastOp'.ret) =>
                        /\ key \in DOMAIN captcha_cache'
                        /\ captcha_cache'[key].solution = lastOp'.ret
      ]_vars

\* C8 witness: a request of a type solve_captcha cannot solve has been
\* answered, from the entry a request of another type with the same question
\* left.
C8_Witness ==
    /\ lastOp.op = "solve_captcha"
    /\ CaptchaType(lastOp.captcha_data) = "audio"
    /\ Truthy(lastOp.ret)
    /\ Md5(Question(lastOp.captcha_data)) \in DOMAIN captcha_cache
    /\ captcha_cache[Md5(Question(lastOp.captcha_data))].solution = lastOp.ret

\* The result the claim gives a question: the first of plus, minus, times,
\* divide that the question holds, applied to its first two runs of digits
Recognized(q, word, signs) ==
    Contains(Lower(q), word) \/ \E c \in signs : HasChar(q, c)
Arithmetic(q) ==
    LET numbers == FindNumbers(q)
        a == ToInt(numbers[1])
        b == ToInt(numbers[2])
        ops == <<Recognized(q, <<"p", "l", "u", "s">>, {"+"}),
                 Recognized(q, <<"m", "i", "n", "u", "s">>, {"-"}),
                 Recognized(q, <<"t", "i", "m", "e", "s">>, {MulSign, "*"}),
                 Recognized(q, <<"d", "i", "v", "i", "d", "e">>, {DivSign, "/"})>>
        first == CHOOSE i \in 1..4 : ops[i] /\ \A j \in 1..(i - 1) : ~ops[j]
    IN IF Len(numbers) < 2 \/ \A i \in 1..4 : ~ops[i] THEN None
       ELSE IF first = 1 THEN StrVal(Str(a + b))
       ELSE IF first = 2 THEN StrVal(Str(a - b))
       ELSE IF first = 3 THEN StrVal(Str(a * b))
       ELSE IF b = 0 THEN None
       ELSE StrVal(Str(CHOOSE n \in 0..a : n * b <= a /\ a < (n + 1) * b))

\* C9 as stated: a math CAPTCHA with a question is answered with the result
\* of the first recognized operator, in the order plus, minus, times, divide,
\* on the first two integers of the question, the quotient rounded down, and
\* with None when there is a zero divisor, fewer than two integers or no
\* operator.
C9_FixedOperatorOrder ==
    [][/\ lastOp'.op = "solve_captcha"
       /\ CaptchaType(Asked) = "math"
       /\ Question(Asked) # <<>>
       => lastOp'.ret = Arithmetic(Question(Asked))
      ]_vars

\* C9 amended: the same, for a question that has no cache entry less than
\* 300 s old.
C9_FixedOperatorOrderUncached ==
    [][/\ lastOp'.op = "solve_captcha"
       /\ CaptchaType(Asked) = "math"
       /\ Question(Asked) # <<>>
       /\ ~Young(Md5(Question(Asked)))
       => lastOp'.ret = Arithmetic(Question(Asked))
      ]_vars

\* C9 witness: a question with times ahead of minus has been answered with
\* the difference.
C9_Witness ==
    /\ lastOp.op = "solve_captcha"
    /\ CaptchaType(lastOp.captcha_data) = "math"
    /\ Question(lastOp.captcha_data) = <<"6", " ", "t", "i", "m", "e", "s", " ", "3", " ", "m", "i", "n", "u", "s", " ", "1">>
    /\ lastOp.ret = StrVal(<<"3">>)

\* C10: for an image CAPTCHA with image data, when the key has no entry less
\* than 300 s old, auto_solve is on and the data decodes, the decoded image
\* is in a file of the captcha directory, MANUAL: and the file's path is
\* returned and is cached under the key with the present time; when the key
\* has such an entry, its solution is returned and no file is written.
C10_ImageSavedAndMarked ==
    [][/\ lastOp'.op = "solve_captcha"
       /\ CaptchaType(Asked) = "image"
       /\ ImageData(Asked) # <<>>
       => LET key == CacheKey(Asked)
              path == <<"c", "a", "p", "t", "c", "h", "a", "s", "/", "c", "a", "p", "t", "c", "h", "a", "_">> \o Str(now) \o <<".", "p", "n", "g">>
              marker == StrVal(<<"M", "A", "N", "U", "A", "L", ":">> \o path)
          IN /\ ~Young(key) /\ lastOp'.auto_solve /\ B64Decode(ImageData(Asked)).ok =>
                  /\ path \in DOMAIN captcha_dir'
                  /\ captcha_dir'[path] = B64Decode(ImageData(Asked)).bytes
                  /\ lastOp'.ret = marker
                  /\ captcha_cache'[key] = [solution |-> marker, timestamp |-> now]
             /\ Young(key) =>
                  /\ lastOp'.ret = captcha_cache[key].solution
                  /\ captcha_dir' = captcha_dir
      ]_vars

\* C10 witness: an image CAPTCHA saved at the start has been asked again 299 s
\* later and answered with the marker of the file saved then, the only file
\* there is.
C10_Witness ==
    /\ lastOp.op = "solve_captcha"
    /\ CaptchaType(lastOp.captcha_data) = "image"
    /\ Question(lastOp.captcha_data) = <<>>
    /\ now = 299
    /\ calls = 2
    /\ lastOp.ret = Manual(CaptchaPath(0))
    /\ DOMAIN captcha_dir = {CaptchaPath(0)}

\* C12: a session that create_session has created (directly, or for
\* get_session_for_domain) is stored with is_active = 1, with cookies, tokens
\* and headers that encode the empty dictionary, and with expires_at 7 days
\* (10080 minutes) after created_at, the time of the call.
C12_CreatedActiveForSevenDays ==
    [][/\ lastOp'.op \in {"create_session", "get_session_for_domain"}
       /\ lastOp'.op = "get_session_for_domain" => ~lastOp'.found /\ lastOp'.create
       /\ ~lastOp'.raised
       => LET sid == SessionId(lastOp'.domain, clock) IN
          /\ sid \in DOMAIN db'
          /\ db'[sid].domain = lastOp'.domain
          /\ db'[sid].is_active = 1
          /\ Loads(db'[sid].cookies) = DictVal(NoKeys)
          /\ Loads(db'[sid].tokens) = DictVal(NoKeys)
          /\ Loads(db'[sid].headers) = DictVal(NoKeys)
          /\ db'[sid].created_at = clock
          /\ db'[sid].expires_at = db'[sid].created_at + 7 * 24 * 60
      ]_vars

\* C12 witness: a session has just been created after the first one expired;
\* it is stored active and expires 7 days later.
C12_Witness ==
    /\ lastOp.op = "create_session"
    /\ ~lastOp.raised
    /\ clock = SessionTTL + 1
    /\ db[lastOp.ret].is_active = 1
    /\ db[lastOp.ret].expires_at = 2 * SessionTTL + 1

\* C13: perform_auto_login, which asks get_session_for_domain for the
\* session of a domain with create_if_missing=True and reads its 'id',
\* succeeds, and leaves in current_session the id of an active session of
\* the domain.
C13_CallerReadsId ==
    [][lastOp'.op = "perform_auto_login" =>
          /\ ~lastOp'.raised
          /\ lastOp'.success
          /\ current_session' \in DOMAIN db'
          /\ db'[current_session'].domain = lastOp'.domain
          /\ db'[current_session'].is_active = 1
      ]_vars

\* C20: after the bridge has processed a captured request that
\* _is_login_request identifies as a login, the entry of the request's domain
\* in sessions holds the login template of that request.
C20_LoginTemplateKept ==
    [][/\ lastOp'.op = "process_captured_request"
       /\ lastOp'.is_login
       /\ UrlHasDomain(request'.url)
       => LET domain == UrlDomain(request'.url) IN
          /\ domain \in DOMAIN sessions'
          /\ {"login_url", "login_method", "login_headers", "login_body"}
                \subseteq DOMAIN sessions'[domain]
          /\ sessions'[domain]["login_url"] = request'.url
          /\ sessions'[domain]["login_method"] = request'.method
          /\ sessions'[domain]["login_headers"] = request'.requestHeaders
          /\ sessions'[domain]["login_body"] = request'.requestBody
      ]_vars

\* C19: on a capture_data message every captured request is processed, then
\* api_requests is enqueued for api_tester exactly when api_tester is active,
\* and sms_data for sms_panel exactly when sms_panel is active and at least
\* one SMS record was extracted
Enqueued == SubSeq(desktop_to_browser', Len(desktop_to_browser) + 1,
                   Len(desktop_to_browser'))

C19_ForwardsToActiveTools ==
    [][(lastOp'.op = "client_message" /\ lastOp'.msg.type = "capture_data") =>
           LET requests == lastOp'.msg.requests
           IN /\ \A i \in 1..Len(requests) :
                     RequestFile(requests[i]) \in DOMAIN data_dir'
              /\ (\E i \in 1..Len(Enqueued) :
                      /\ Enqueued[i].type = "api_requests"
                      /\ Enqueued[i].target = "api_tester")
                     <=> active_tools["api_tester"]
              /\ (\E i \in 1..Len(Enqueued) :
                      /\ Enqueued[i].type = "sms_data"
                      /\ Enqueued[i].target = "sms_panel")
                     <=> (active_tools["sms_panel"] /\ ExtractSms(requests) # <<>>)
      ]_vars

\* C17: a handler writes a queued message to its socket only if the target of
\* the message is the type its client declared in its first message or is
\* 'all', and no queued message is written to more than one socket
Declared(c) == clients[c].type

C17_SendsOnlyToDeclaredType ==
    [][\A c \in ClientIds :
           sent'[c] # sent[c] =>
               LET written == sent'[c][Len(sent'[c])]
               IN /\ sent'[c] = Append(sent[c], written)
                  /\ c \in DOMAIN clients
                  /\ written.m.target \in {Declared(c), "all"}
                  /\ \A d \in ClientIds : \A i \in 1..Len(sent[d]) :
                         sent[d][i].n # written.n
      ]_vars

C17_Witness ==
    \E c \in ClientIds, d \in ClientIds :
        /\ c # d
        /\ sent[c] # <<>>
        /\ d \in DOMAIN clients
        /\ c \in DOMAIN clients
        /\ Declared(d) # Declared(c)
        /\ lastOp.op = "send"
        /\ lastOp.client = d

\* C15: no message taken off desktop_to_browser is discarded while a client
\* of its target type is connected: the handler that took it is the handler
\* of a connected client whose declared type is the target of the message,
\* and writes it to its socket
Connected(d, type) ==
    /\ d \in DOMAIN clients
    /\ Declared(d) = type
    /\ peer[d] = "open"
    /\ handlers[d].pc \in {"recv", "poll", "get", "send"}

C15_NoMessageDiscarded ==
    [][\A c \in ClientIds :
           (/\ handlers[c].pc = "send"
            /\ handlers'[c].pc # "send"
            /\ \E d \in ClientIds :
                   Connected(d, handlers[c].message.m.target)) =>
               /\ Connected(c, handlers[c].message.m.target)
               /\ sent'[c] = Append(sent[c], handlers[c].message)
      ]_vars

\* C18: when the connection of a client ends, by the peer closing or by a
\* reset, its handler eventually leaves its loop, removes the client from
\* clients and resets the flag the client had set
C18_HandlerLeavesWhenPeerGone ==
    \A c \in ClientIds :
        (peer[c] \in {"closed", "reset"}) ~>
            (handlers[c].pc = "done" /\ c \notin DOMAIN clients)

\* C11: GET is answered 200 on /status, /data and /launch/<tool> and 404 on
\* every other path; POST of a JSON object is answered 200 on /capture,
\* /session and /captcha and 404 on any other path; a POST whose handling
\* raises (a body that is no JSON or no object, /captcha without a captcha
\* field) is answered 500; no request is left unanswered
KnownGet(p) == p = <<"/", "s", "t", "a", "t", "u", "s">> \/ p = <<"/", "d", "a", "t", "a">> \/ StartsWith(p, <<"/", "l", "a", "u", "n", "c", "h", "/">>)
KnownPost(p) == p \in {<<"/", "c", "a", "p", "t", "u", "r", "e">>, <<"/", "s", "e", "s", "s", "i", "o", "n">>, <<"/", "c", "a", "p", "t", "c", "h", "a">>}
IsObject(body) == body.kind = "json" /\ body.v.t = "object"

C11_EveryRequestAnswered ==
    [][/\ lastOp'.op = "do_GET" =>
              lastOp'.statuses =
                  IF KnownGet(UrlPath(lastOp'.path)) THEN <<200>> ELSE <<404>>
       /\ lastOp'.op = "do_POST" =>
              LET p == UrlPath(lastOp'.path)
                  body == lastOp'.body
              IN /\ lastOp'.statuses \in {<<200>>, <<404>>, <<500>>}
                 /\ lastOp'.content_length = "length" =>
                        /\ (body.kind # "json"
                                \/ (KnownPost(p) /\ ~IsObject(body)))
                               => lastOp'.statuses = <<500>>
                        /\ (IsObject(body) /\ p = <<"/", "c", "a", "p", "t", "c", "h", "a">>
                                /\ "captcha" \notin DOMAIN body.v.fields)
                               => lastOp'.statuses = <<500>>
                        /\ (body.kind = "json" /\ ~KnownPost(p))
                               => lastOp'.statuses = <<404>>
                        /\ (IsObject(body) /\ KnownPost(p))
                               => lastOp'.statuses \in {<<200>>, <<500>>}
      ]_vars

\* C14: whenever a monitor pass finds that the process of a tracked tool with
\* auto_restart set has exited, a new process for that tool is started and is
\* tracked in running_tools after the pass
FoundExited(tool) ==
    /\ running_tools[tool] # None
    /\ ~processes[running_tools[tool].pid].alive
    /\ running_tools[tool].auto_restart

C14_ExitedToolRestarted ==
    [][lastOp'.op = "monitor_tools" =>
           \A tool \in ControllerTools :
               FoundExited(tool) =>
                   /\ running_tools'[tool] # None
                   /\ running_tools'[tool].pid > Len(processes)
                   /\ processes'[running_tools'[tool].pid].alive
      ]_vars

\* C16: the thread of a request queues exactly one call for the UI thread:
\* _update_response_ui with the response when the HTTP call returned one, and
\* _show_error only when the call raised
C16_ResponseQueuesUpdate ==
    [][lastOp'.op = "send_request_thread" =>
           /\ Len(ui_queue') = Len(ui_queue) + 1
           /\ LET queued == ui_queue'[Len(ui_queue')]
              IN IF lastOp'.outcome.kind = "response"
                 THEN /\ queued.call = "_update_response_ui"
                      /\ queued.response = lastOp'.outcome
                 ELSE queued.call = "_show_error"
      ]_vars

\* C22: a monitor pass marks the browser disconnected when it is connected
\* and its last activity is more than 60 seconds old, and leaves it connected
\* when the last activity is 60 seconds old or less
C22_DisconnectsAfterTimeout ==
    [][lastOp'.op = "monitor_tools" =>
           LET b == controller_browser
           IN (b.connected /\ b.active) =>
                  (controller_browser'.connected
                       <=> (now - b.last) <= BrowserTimeout)
      ]_vars

\* C21: launch_tool on a tool that has an entry starts no process and returns
\* True, and at no time are two processes of one tool alive
LiveProcesses(tool) ==
    {pid \in DOMAIN processes :
         processes[pid].alive /\ processes[pid].tool = tool}

C21_OneLiveProcessPerTool ==
    \A tool \in ControllerTools : Cardinality(LiveProcesses(tool)) <= 1

\* C24: when on_browser_data is given a CAPTCHA whose question was solved
\* for the browser less than 5 minutes ago, the solution comes from the
\* cache and nothing is solved or stored again
SolvedLately(question) ==
    /\ question # <<>>
    /\ \E id \in DOMAIN captcha_solutions :
           /\ captcha_solutions[id].question = question
           /\ now - captcha_solutions[id].solved_at < CacheTTL

C24_SecondSolutionFromCache ==
    [][(lastOp'.op = "on_browser_data" /\ lastOp'.solving
            /\ SolvedLately(Question(lastOp'.captcha_data)))
           => /\ lastOp'.cached
              /\ captcha_solutions' = captcha_solutions
              /\ captcha_dir' = captcha_dir
      ]_vars

\* C23: stop_service on a tracked service ends its process, returns True and
\* leaves the name untracked; on an untracked name it returns False and
\* changes nothing
C23_StopServiceStops ==
    [][lastOp'.op = "stop_service" =>
           IF lastOp'.tracked
           THEN /\ lastOp'.ret
                /\ services'[lastOp'.name] = None
                /\ ~service_processes'[lastOp'.process].alive
           ELSE /\ ~lastOp'.ret
                /\ UNCHANGED coreVars
      ]_vars

====
